---- MODULE Spec2Model ----
(***************************************************************************)
(* Model of the chunked multipart uploader of s3backup                      *)
(* (pkg/uploader/uploader.go: Uploader.Upload, worker, readChunks,          *)
(* sortParts, getBuffer, putBuffer).                                        *)
(*                                                                          *)
(* One run of Upload is a system of goroutines: the coordinator (the body   *)
(* of Upload), the reader (readChunks), `concurrency` workers and the task  *)
(* that waits for the workers and closes resultChan.  They communicate by   *)
(* chunkChan (capacity 2*concurrency), resultChan (capacity concurrency),   *)
(* errorChan (capacity 1) and the closed-only channel readDone.  The        *)
(* storage adapter and the source are the environment: each backend call    *)
(* and each read may succeed or fail, and the context may be cancelled at   *)
(* any moment.                                                              *)
(*                                                                          *)
(* Sizes are counted in blocks: PoolBlockSize stands for the 5 MiB of the   *)
(* buffer pool, so a chunk size of 1 is below it and 3 is above it.  The    *)
(* source's bytes are their positions 1..srcLen, so that any loss,          *)
(* duplication or reordering of bytes is visible.                           *)
(*                                                                          *)
(* Two more systems share the module.  SpecDriver is runBackup: a producer  *)
(* writes the archive into an io.Pipe that the same uploader reads, and     *)
(* runBackup returns on the first value of errChan.  SpecCipher is the      *)
(* stream cipher of package crypto: NewStreamEncryptor, the EncryptWriter   *)
(* and the verifying reader, on containers of real field widths.            *)
(*                                                                          *)
(* Four smaller systems follow them.  SpecEndpoint applies                  *)
(* normalizeEndpoint of package storage to endpoint strings; SpecClass      *)
(* takes a storage class from the configuration to an adapter's requests;   *)
(* SpecArchive is Archiver.Archive walking a small file tree; SpecConfig    *)
(* is the configuration from LoadConfig through Validate to the adapter.    *)
(*                                                                          *)
(* SpecFair is Upload with a context that is never cancelled, under weak    *)
(* fairness of every goroutine.  SpecResume is ResumableUploader.Resume on  *)
(* the same reader, channels and select loop; SpecState is the              *)
(* StateManager's AddCompletedPart with its asynchronous saves; SpecCli is  *)
(* Execute turning the command's error into the exit code.                  *)
(***************************************************************************)
EXTENDS Integers, Sequences, FiniteSets, TLC

\* ---- bounds of the model ----
MaxConcurrency == 2
MaxChunkSize == 3
MaxSrcLen == 5

\* ---- program constants ----
\* the pool's block, 5*1024*1024 bytes in the source, counted as 2 blocks here
PoolBlockSize == 2

VARIABLES
    concurrency,   \* u.concurrency
    chunkSize,     \* u.chunkSize
    srcLen,        \* number of bytes the source holds
    cancelled,     \* ctx.Done() is closed
    pool,          \* bufferPool: the lengths of the slices it holds
    chunkChan,     \* buffered channel of chunks
    chunkClosed,   \* close(chunkChan) has run
    resultChan,    \* buffered channel of part results
    resultClosed,  \* close(resultChan) has run
    errorChan,     \* buffered channel of errors, capacity 1
    readDone,      \* close(readDone) has run
    rpc,           \* reader's position in readChunks
    rbuf,          \* the buffer the reader holds: [len, cap]
    rchunk,        \* the chunk the reader is about to send
    partNumber,    \* readChunks' partNumber
    readPos,       \* bytes consumed from the source so far
    wpc,           \* wpc[w]: worker w's position in worker()
    wchunk,        \* wchunk[w]: the chunk worker w holds
    cpc,           \* coordinator's position in Upload
    parts,         \* Upload's parts slice, in arrival order
    err,           \* Upload's named return value err
    abortDeferred, \* the deferred abort of Upload is registered
    initCalls,     \* calls of adapter.InitMultipartUpload
    uploadCalls,   \* calls of adapter.UploadPart so far: [partNumber, data]
    partsOK,       \* part numbers whose UploadPart returned an ETag
    partErrSeen,   \* some UploadPart call returned an error
    completeCalls, \* calls of adapter.CompleteMultipartUpload
    completeArg,   \* the part list given to CompleteMultipartUpload
    completeOK,    \* CompleteMultipartUpload returned nil
    abortCalls,    \* calls of adapter.AbortMultipartUpload
    readErrSeen,   \* the source returned an error other than end-of-stream
    cancelInFlight, \* ctx was cancelled while parts were being read or uploaded
    reporterInit,  \* calls of u.reporter.Init
    reporterAdded, \* sum of the n of all u.reporter.Add(n) calls
    reporterComplete, \* calls of u.reporter.Complete
    reporterClose, \* calls of u.reporter.Close
    ppc,           \* runBackup's producer task: its position ("none": the
                   \* source is a plain reader, not a pipe)
    upc,           \* runBackup's task that calls Upload: its position
    mpc,           \* runBackup itself: waiting on errChan, or returned
    drvErrChan,    \* runBackup's errChan, capacity 3
    aesKeyLen,     \* len(aesKey) given to NewStreamEncryptor
    hmacKeyLen,    \* len(hmacKey) given to NewStreamEncryptor
    encryptor,     \* what NewStreamEncryptor returned: "none" before the call
    ew,            \* the EncryptWriter: [state, iv, stream, hmac, position], and
                   \* late: Write was called after Close
    sink,          \* the bytes written to the EncryptWriter's underlying writer
    plain,         \* the plaintext bytes of the Writes that returned no error
    ewErr,         \* the error of the EncryptWriter's last operation
    src,           \* the container the verifying reader reads
    dr,            \* the decryptReaderWithHMACImpl:
                   \* [state, iv, stream, hmac, position, srcPos, sawEOF]
    pLen,          \* len(p) of the consumer's Read calls
    srcRead,       \* how many bytes one Read of the underlying reader returns
    delivered,     \* the bytes the consumer got from Read
    dErr,          \* the error of the verifying reader's last operation
    epInput,       \* the endpoint string a caller gives to normalizeEndpoint
    epResults,     \* what normalizeEndpoint returned: for the input, then for
                   \* its own result
    scProvider,    \* cfg.Storage.Provider: which adapter runBackup created
    scConfig,      \* cfg.Storage.StorageClass, the string of the configuration
    scOpts,        \* opts.StorageClass that runBackup gives to Upload
    scRequest,     \* the create-upload request the adapter sent:
                   \* [calls, field, value]
    arFs,          \* the file tree the archiver walks: what Lstat finds at
                   \* each path, and whether it can be opened or listed
    arIncludes,    \* Archiver.includes, the include roots in order
    arExcludes,    \* Archiver.excludes, the compiled exclude patterns
    arCtxDone,     \* ctx given to Archive is cancelled
    arPc,          \* Archive's position: "none", "walk" or "done"
    arStack,       \* the archivePath calls still to make, depth first:
                   \* [path, base, root]
    arOut,         \* what reached the sink, in order: the tar entries, the
                   \* tar footer, the gzip trailer
    arTouched,     \* the paths Archive has read from disk: [path, root]
    arSkips,       \* the nodes archivePath returned nil for without an
                   \* entry: [path, root, isRoot, why]
    arErr,         \* the error Archive returns ("none" for nil)
    cfFile,        \* the configuration file's values
    cfFlags,       \* runBackup's command-line flags
    cfCfg,         \* cfg as runBackup holds it
    cfPc,          \* runBackup's position
    cfErr,         \* the error runBackup returned
    cfAdapter,     \* the provider of the adapter createStorageAdapter created
                   \* (empty: none)
    cfUploads,     \* calls of Upload, where the backend calls are made
    clErr,         \* the error the command's RunE returns: [wraps, cause]
    clPc,          \* Execute's position
    clRet,         \* what rootCmd.Execute() returned to Execute
    clStderr,      \* what Execute wrote to os.Stderr
    clExit,        \* the process's exit code
    savedParts,    \* savedState.Completed given to NewResumableUploader: the
                   \* part numbers it records
    smN,           \* how many parts are added to the StateManager
    smCompleted,   \* sm.state.Completed, the part numbers in order
    smLock,        \* sm.mu: the caller that holds it, or 0
    smCalls,       \* smCalls[c]: the position of the AddCompletedPart call
                   \* for part c
    smSavers,      \* smSavers[c]: the saveAsync task that call started:
                   \* [pc, snap]
    smFile,        \* the state file: [parts, len, torn]
    smRaced        \* a saveAsync serialised sm.state while a call was
                   \* changing it

vars == <<concurrency, chunkSize, srcLen, cancelled, pool, chunkChan, chunkClosed,
          resultChan, resultClosed, errorChan, readDone, rpc, rbuf, rchunk,
          partNumber, readPos, wpc, wchunk, cpc, parts, err, abortDeferred,
          initCalls, uploadCalls, partsOK, partErrSeen, completeCalls, completeArg, completeOK,
          abortCalls, readErrSeen, cancelInFlight, reporterInit, reporterAdded,
          reporterComplete, reporterClose, ppc, upc, mpc, drvErrChan,
          aesKeyLen, hmacKeyLen, encryptor, ew, sink, plain, ewErr, src, dr, pLen,
          srcRead, delivered, dErr, epInput, epResults,
          scProvider, scConfig, scOpts, scRequest,
          arFs, arIncludes, arExcludes, arCtxDone, arPc, arStack, arOut,
          arTouched, arSkips, arErr,
          cfFile, cfFlags, cfCfg, cfPc, cfErr, cfAdapter, cfUploads,
          clErr, clPc, clRet, clStderr, clExit, savedParts,
          smN, smCompleted, smLock, smCalls, smSavers, smFile, smRaced>>

chanVars == <<chunkChan, chunkClosed, resultChan, resultClosed, errorChan, readDone>>
readerVars == <<rpc, rbuf, rchunk, partNumber, readPos, readErrSeen>>
workerVars == <<wpc, wchunk, uploadCalls, partsOK, partErrSeen, reporterAdded>>
reporterVars == <<reporterInit, reporterComplete, reporterClose>>
coordVars == <<cpc, parts, err, abortDeferred, initCalls, completeCalls,
               completeArg, completeOK, abortCalls, reporterVars>>
driverVars == <<ppc, upc, mpc, drvErrChan>>
writerVars == <<ew, sink, plain, ewErr>>
verifierVars == <<src, dr, pLen, srcRead, delivered, dErr>>
cipherVars == <<aesKeyLen, hmacKeyLen, encryptor, writerVars, verifierVars>>
endpointVars == <<epInput, epResults>>
classVars == <<scProvider, scConfig, scOpts, scRequest>>
archiveVars == <<arFs, arIncludes, arExcludes, arCtxDone, arPc, arStack, arOut,
                 arTouched, arSkips, arErr>>
configVars == <<cfFile, cfFlags, cfCfg, cfPc, cfErr, cfAdapter, cfUploads>>
cliVars == <<clErr, clPc, clRet, clStderr, clExit>>
stateVars == <<smN, smCompleted, smLock, smCalls, smSavers, smFile, smRaced>>
lateVars == <<cliVars, savedParts, stateVars>>
libVars == <<endpointVars, classVars, archiveVars, configVars, lateVars>>
inputVars == <<concurrency, chunkSize, srcLen, driverVars, cipherVars, libVars>>

Workers == 1..concurrency

NoChunk == [partNumber |-> 0, data |-> <<>>, cap |-> 0]
NoBuf == [len |-> 0, cap |-> 0]

\* a read that always fills its buffer
Min_First(a, b) == a

Min(a, b) == IF a < b THEN a ELSE b

\* ---- the buffer pool ----
\* The pool is kept as the set of the lengths of its slices.  Every pooled
\* slice has the capacity PoolBlockSize (putBuffer), and sync.Pool may drop
\* what it holds at any time, so how many slices of one length it holds
\* decides nothing.
EmptyPool == {}

\* bufferPool.New: a slice of the pool's block size
PoolNew == [len |-> PoolBlockSize, cap |-> PoolBlockSize]

\* a Get that never returns
PoolGet_Never(p) == {}

\* bufferPool.Get(): any pooled slice, which leaves the pool, or a new one
\* (sync.Pool may ignore what it holds).  Each outcome is <<slice, pool after>>.
PoolGet(p) ==
    {<<PoolNew, p>>} \cup
    {<<[len |-> l, cap |-> PoolBlockSize], p \ {l}>> : l \in p}

\* getBuffer: the slice got from the pool if it is long enough, else a fresh
\* slice of exactly `size`
getBuffer(got, size) ==
    IF got.len < size THEN [len |-> size, cap |-> size] ELSE got

\* putBuffer: only slices whose capacity is the pool's block are pooled, with
\* the length they have when put
putBufferPools(len, cap) == cap = PoolBlockSize

putBuffer(p, len, cap) ==
    IF putBufferPools(len, cap) THEN p \cup {len} ELSE p

\* ---- sortParts ----
RECURSIVE InsertPart(_, _)
InsertPart(s, x) ==
    IF s = <<>> THEN <<x>>
    ELSE IF x.partNumber < Head(s).partNumber THEN <<x>> \o s
    ELSE <<Head(s)>> \o InsertPart(Tail(s), x)

RECURSIVE sortParts(_)
sortParts(s) ==
    IF s = <<>> THEN <<>>
    ELSE InsertPart(sortParts(SubSeq(s, 1, Len(s) - 1)), s[Len(s)])

\* the ETag the backend returns for a part (opaque to the uploader)
ETagOf(p) == p

\* ---- initial state: a constructed Uploader, Upload not yet entered, in a
\* process whose buffer pool has not been used yet ----

UploaderInit ==
    /\ concurrency \in 1..MaxConcurrency
    /\ chunkSize \in 1..MaxChunkSize
    /\ srcLen \in 0..MaxSrcLen
    /\ cancelled = FALSE
    /\ pool = EmptyPool
    /\ chunkChan = <<>> /\ chunkClosed = FALSE
    /\ resultChan = <<>> /\ resultClosed = FALSE
    /\ errorChan = <<>> /\ readDone = FALSE
    /\ rpc = "unspawned" /\ rbuf = NoBuf /\ rchunk = NoChunk
    /\ partNumber = 1 /\ readPos = 0
    /\ wpc = [w \in Workers |-> "unspawned"]
    /\ wchunk = [w \in Workers |-> NoChunk]
    /\ cpc = "start" /\ parts = <<>> /\ err = "nil" /\ abortDeferred = FALSE
    /\ initCalls = 0 /\ uploadCalls = {} /\ partsOK = {} /\ partErrSeen = FALSE
    /\ completeCalls = 0
    /\ completeArg = <<>> /\ completeOK = FALSE /\ abortCalls = 0
    /\ readErrSeen = FALSE /\ cancelInFlight = FALSE
    /\ reporterInit = 0 /\ reporterAdded = 0
    /\ reporterComplete = 0 /\ reporterClose = 0

\* no EncryptWriter and no verifying reader exist
NoWriter == [state |-> "none", iv |-> <<>>, stream |-> 0, hmac |-> <<>>, position |-> 0,
             late |-> FALSE]
NoVerifier == [state |-> "none", iv |-> <<>>, stream |-> 0, hmac |-> <<>>,
               position |-> 0, srcPos |-> 0, sawEOF |-> FALSE]

\* the stream cipher is not in use
CipherIdle ==
    /\ aesKeyLen = 0 /\ hmacKeyLen = 0 /\ encryptor = "none"
    /\ ew = NoWriter /\ sink = <<>> /\ plain = <<>> /\ ewErr = "nil"
    /\ src = <<>> /\ dr = NoVerifier /\ pLen = 0 /\ srcRead = 0
    /\ delivered = <<>> /\ dErr = "nil"

\* runBackup is not in use
DriverIdle == ppc = "none" /\ upc = "none" /\ mpc = "none" /\ drvErrChan = <<>>

\* normalizeEndpoint is not in use
EndpointIdle == epInput = <<>> /\ epResults = <<>>

\* the functions of the storage, archive and config packages are not in use
\* no create-upload request was sent
NoRequest == [calls |-> 0, field |-> "", value |-> ""]

\* no storage class is being translated
ClassIdle ==
    scProvider = "" /\ scConfig = "" /\ scOpts = "none" /\ scRequest = NoRequest

\* Archive is not called
ArchiveIdle ==
    /\ arFs = <<>> /\ arIncludes = <<>> /\ arExcludes = {} /\ arCtxDone = FALSE
    /\ arPc = "none" /\ arStack = <<>> /\ arOut = <<>> /\ arTouched = {}
    /\ arSkips = {} /\ arErr = "none"

\* no configuration is loaded
ConfigIdle ==
    /\ cfFile = <<>> /\ cfFlags = <<>> /\ cfCfg = <<>> /\ cfPc = "none"
    /\ cfErr = "none" /\ cfAdapter = <<>> /\ cfUploads = 0

\* Execute is not in use
CliIdle ==
    /\ clErr = [wraps |-> <<>>, cause |-> "nil"] /\ clPc = "none"
    /\ clRet = [wraps |-> <<>>, cause |-> "nil"] /\ clStderr = <<>> /\ clExit = 0

\* no saved state: Upload, not Resume
ResumeIdle == savedParts = {}

\* no StateManager is in use
StateIdle ==
    /\ smN = 0 /\ smCompleted = <<>> /\ smLock = 0 /\ smCalls = <<>>
    /\ smSavers = <<>> /\ smFile = [parts |-> {}, len |-> 0, torn |-> FALSE]
    /\ smRaced = FALSE

LateIdle == CliIdle /\ ResumeIdle /\ StateIdle

LibIdle == EndpointIdle /\ ClassIdle /\ ArchiveIdle /\ ConfigIdle /\ LateIdle

\* Upload called on a source that is a plain finite reader
Init ==
    /\ UploaderInit
    /\ DriverIdle
    /\ CipherIdle
    /\ LibIdle

\* ---- the environment ----

\* parts are being read or uploaded: the reader has not returned, a chunk is
\* queued or a worker holds one
InFlight ==
    \/ rpc \in {"check", "read", "send", "sendErr"}
    \/ chunkChan # <<>>
    \/ \E w \in Workers : wpc[w] \in {"check", "uploading", "sendRes", "sendErr"}

\* the caller cancels ctx
Cancel ==
    /\ ~cancelled
    /\ cancelled' = TRUE
    /\ cancelInFlight' = (cpc = "loop" /\ InFlight)
    /\ UNCHANGED <<inputVars, pool, chanVars, readerVars, workerVars, coordVars>>

\* ---- readChunks ----

\* top of the loop: return if ctx is done, else getBuffer(u.chunkSize)
ReaderLoopTop ==
    /\ rpc = "check"
    /\ IF cancelled
       THEN /\ chunkClosed' = TRUE
            /\ rpc' = "closeReadDone"
            /\ UNCHANGED <<rbuf, pool>>
       ELSE /\ \E g \in PoolGet(pool) :
                 /\ rbuf' = getBuffer(g[1], chunkSize)
                 /\ pool' = g[2]
            /\ rpc' = "read"
            /\ UNCHANGED chunkClosed
    /\ UNCHANGED <<inputVars, cancelled, cancelInFlight, chunkChan, resultChan,
                   resultClosed, errorChan, readDone, rchunk, partNumber, readPos,
                   readErrSeen, workerVars, coordVars>>

\* the source is at its end once every byte is read: a plain reader always,
\* a pipe only after its write end was closed
SourceClosed == ppc \in {"none", "closed", "closedFailed"}

\* io.ReadFull(r, buf) returns and its result is examined.  It returns when
\* buf is full or the source has ended; a pipe closed by pw.Close() gives no
\* error other than end-of-stream.
ReaderRead ==
    /\ rpc = "read"
    /\ \/ \* an error other than EOF / ErrUnexpectedEOF
          /\ ppc = "none"
          /\ readErrSeen' = TRUE
          /\ pool' = putBuffer(pool, rbuf.len, rbuf.cap)
          /\ rbuf' = NoBuf
          /\ rpc' = "sendErr"
          /\ UNCHANGED <<rchunk, readPos, chunkClosed>>
       \/ LET n == Min(rbuf.len, srcLen - readPos) IN
          /\ n = rbuf.len \/ SourceClosed
          /\ IF n = 0
             THEN /\ pool' = putBuffer(pool, rbuf.len, rbuf.cap)
                  /\ rbuf' = NoBuf
                  /\ chunkClosed' = TRUE
                  /\ rpc' = "closeReadDone"
                  /\ UNCHANGED <<rchunk, readPos, readErrSeen>>
             ELSE /\ rchunk' = [partNumber |-> partNumber,
                                data |-> [i \in 1..n |-> readPos + i],
                                cap |-> rbuf.cap]
                  /\ readPos' = readPos + n
                  /\ rbuf' = NoBuf
                  /\ rpc' = "send"
                  /\ UNCHANGED <<pool, chunkClosed, readErrSeen>>
    /\ UNCHANGED <<inputVars, cancelled, cancelInFlight, chunkChan, resultChan,
                   resultClosed, errorChan, readDone, partNumber, workerVars, coordVars>>

\* errorChan <- "failed to read data", then return (the deferred close runs)
ReaderSendErr ==
    /\ rpc = "sendErr"
    /\ Len(errorChan) < 1
    /\ errorChan' = Append(errorChan, "read")
    /\ chunkClosed' = TRUE
    /\ rpc' = "closeReadDone"
    /\ UNCHANGED <<inputVars, cancelled, cancelInFlight, pool, chunkChan, resultChan,
                   resultClosed, readDone, rbuf, rchunk, partNumber, readPos,
                   readErrSeen, workerVars, coordVars>>

\* chunkChan <- chunk; partNumber++
ReaderSend ==
    /\ rpc = "send"
    /\ Len(chunkChan) < 2 * concurrency
    /\ chunkChan' = Append(chunkChan, rchunk)
    /\ rchunk' = NoChunk
    /\ partNumber' = partNumber + 1
    /\ rpc' = "check"
    /\ UNCHANGED <<inputVars, cancelled, cancelInFlight, pool, chunkClosed, resultChan,
                   resultClosed, errorChan, readDone, rbuf, readPos, readErrSeen,
                   workerVars, coordVars>>

\* close(readDone), after readChunks returned
ReaderCloseReadDone ==
    /\ rpc = "closeReadDone"
    /\ readDone' = TRUE
    /\ rpc' = "done"
    /\ UNCHANGED <<inputVars, cancelled, cancelInFlight, pool, chunkChan, chunkClosed,
                   resultChan, resultClosed, errorChan, rbuf, rchunk, partNumber,
                   readPos, readErrSeen, workerVars, coordVars>>

\* ---- worker ----

\* `for chunk := range chunkChan`: take the next chunk, or leave the loop when
\* the channel is closed and drained (the deferred wg.Done runs)
WorkerRecv(w) ==
    /\ wpc[w] = "recv"
    /\ IF chunkChan # <<>>
       THEN /\ wchunk' = [wchunk EXCEPT ![w] = Head(chunkChan)]
            /\ chunkChan' = Tail(chunkChan)
            /\ wpc' = [wpc EXCEPT ![w] = "check"]
       ELSE /\ chunkClosed
            /\ wpc' = [wpc EXCEPT ![w] = "done"]
            /\ UNCHANGED <<wchunk, chunkChan>>
    /\ UNCHANGED <<inputVars, cancelled, cancelInFlight, pool, chunkClosed, resultChan,
                   resultClosed, errorChan, readDone, readerVars, uploadCalls, partsOK,
                   partErrSeen, reporterAdded, coordVars>>

\* the non-blocking select on ctx.Done(): return, or call adapter.UploadPart
WorkerCheckCtx(w) ==
    /\ wpc[w] = "check"
    /\ IF cancelled
       THEN /\ wpc' = [wpc EXCEPT ![w] = "done"]
            /\ wchunk' = [wchunk EXCEPT ![w] = NoChunk]
            /\ UNCHANGED uploadCalls
       ELSE /\ wpc' = [wpc EXCEPT ![w] = "uploading"]
            /\ uploadCalls' = uploadCalls \cup
                   {[partNumber |-> wchunk[w].partNumber, data |-> wchunk[w].data]}
            /\ UNCHANGED wchunk
    /\ UNCHANGED <<inputVars, cancelled, cancelInFlight, pool, chanVars, readerVars,
                   partsOK, partErrSeen, reporterAdded, coordVars>>

\* adapter.UploadPart returns an ETag, and u.reporter.Add(chunk.size) follows,
\* or it returns an error
WorkerUploadPartReturn(w) ==
    /\ wpc[w] = "uploading"
    /\ \/ /\ wpc' = [wpc EXCEPT ![w] = "sendRes"]
          /\ partsOK' = partsOK \cup {wchunk[w].partNumber}
          /\ reporterAdded' = reporterAdded + Len(wchunk[w].data)
          /\ UNCHANGED partErrSeen
       \/ /\ wpc' = [wpc EXCEPT ![w] = "sendErr"]
          /\ partErrSeen' = TRUE
          /\ UNCHANGED <<partsOK, reporterAdded>>
    /\ UNCHANGED <<inputVars, cancelled, cancelInFlight, pool, chanVars, readerVars,
                   wchunk, uploadCalls, coordVars>>

\* resultChan <- &partResult{...}; putBuffer(chunk.data)
WorkerSendResult(w) ==
    /\ wpc[w] = "sendRes"
    /\ Len(resultChan) < concurrency
    /\ resultChan' = Append(resultChan, [partNumber |-> wchunk[w].partNumber,
                                         etag |-> ETagOf(wchunk[w].partNumber)])
    /\ pool' = putBuffer(pool, Len(wchunk[w].data), wchunk[w].cap)
    /\ wchunk' = [wchunk EXCEPT ![w] = NoChunk]
    /\ wpc' = [wpc EXCEPT ![w] = "recv"]
    /\ UNCHANGED <<inputVars, cancelled, cancelInFlight, chunkChan, chunkClosed,
                   resultClosed, errorChan, readDone, readerVars, uploadCalls, partsOK,
                   partErrSeen, reporterAdded, coordVars>>

\* errorChan <- "failed to upload part N"; return
WorkerSendError(w) ==
    /\ wpc[w] = "sendErr"
    /\ Len(errorChan) < 1
    /\ errorChan' = Append(errorChan, "part")
    /\ wchunk' = [wchunk EXCEPT ![w] = NoChunk]
    /\ wpc' = [wpc EXCEPT ![w] = "done"]
    /\ UNCHANGED <<inputVars, cancelled, cancelInFlight, pool, chunkChan, chunkClosed,
                   resultChan, resultClosed, readDone, readerVars, uploadCalls, partsOK,
                   partErrSeen, reporterAdded, coordVars>>

\* ---- the task `wg.Wait(); close(resultChan)` ----
CloserClose ==
    /\ ~resultClosed
    /\ \A w \in Workers : wpc[w] = "done"
    /\ resultClosed' = TRUE
    /\ UNCHANGED <<inputVars, cancelled, cancelInFlight, pool, chunkChan, chunkClosed,
                   resultChan, errorChan, readDone, readerVars, workerVars, coordVars>>

\* ---- Upload (the coordinator) ----

\* u.reporter.Init(0); InitMultipartUpload succeeds: the abort is deferred, the
\* channels are made and the workers, the reader and the closing task are
\* started
CoordInitOK ==
    /\ cpc = "start"
    /\ reporterInit' = reporterInit + 1
    /\ initCalls' = initCalls + 1
    /\ abortDeferred' = TRUE
    /\ wpc' = [w \in Workers |-> "recv"]
    /\ rpc' = "check"
    /\ cpc' = "loop"
    /\ UNCHANGED <<inputVars, cancelled, cancelInFlight, pool, chanVars, rbuf, rchunk,
                   partNumber, readPos, readErrSeen, wchunk, uploadCalls, partsOK,
                   partErrSeen, reporterAdded, parts, err, completeCalls, completeArg,
                   completeOK, abortCalls, reporterComplete, reporterClose>>

\* u.reporter.Init(0); InitMultipartUpload fails: return "failed to init
\* multipart upload"
CoordInitFail ==
    /\ cpc = "start"
    /\ reporterInit' = reporterInit + 1
    /\ initCalls' = initCalls + 1
    /\ err' = "init"
    /\ cpc' = "defer"
    /\ UNCHANGED <<inputVars, cancelled, cancelInFlight, pool, chanVars, readerVars,
                   workerVars, parts, abortDeferred, completeCalls, completeArg,
                   completeOK, abortCalls, reporterComplete, reporterClose>>

\* select case <-ctx.Done(): err = ctx.Err(); return
CoordCtxDone ==
    /\ cpc = "loop"
    /\ cancelled
    /\ err' = "ctx"
    /\ cpc' = "defer"
    /\ UNCHANGED <<inputVars, cancelled, cancelInFlight, pool, chanVars, readerVars,
                   workerVars, parts, abortDeferred, initCalls, completeCalls,
                   completeArg, completeOK, abortCalls, reporterVars>>

\* select case result, ok := <-resultChan with ok: append to parts
CoordRecvResult ==
    /\ cpc = "loop"
    /\ resultChan # <<>>
    /\ parts' = Append(parts, Head(resultChan))
    /\ resultChan' = Tail(resultChan)
    /\ UNCHANGED <<inputVars, cancelled, cancelInFlight, pool, chunkChan, chunkClosed,
                   resultClosed, errorChan, readDone, readerVars, workerVars, cpc, err,
                   abortDeferred, initCalls, completeCalls, completeArg, completeOK,
                   abortCalls, reporterVars>>

\* select case result, ok := <-resultChan with !ok: goto complete
CoordResultClosed ==
    /\ cpc = "loop"
    /\ resultChan = <<>>
    /\ resultClosed
    /\ cpc' = "complete"
    /\ UNCHANGED <<inputVars, cancelled, cancelInFlight, pool, chanVars, readerVars,
                   workerVars, parts, err, abortDeferred, initCalls, completeCalls,
                   completeArg, completeOK, abortCalls, reporterVars>>

\* select case uploadErr := <-errorChan: err = uploadErr; return
CoordRecvError ==
    /\ cpc = "loop"
    /\ errorChan # <<>>
    /\ err' = Head(errorChan)
    /\ errorChan' = Tail(errorChan)
    /\ cpc' = "defer"
    /\ UNCHANGED <<inputVars, cancelled, cancelInFlight, pool, chunkChan, chunkClosed,
                   resultChan, resultClosed, readDone, readerVars, workerVars, parts,
                   abortDeferred, initCalls, completeCalls, completeArg, completeOK,
                   abortCalls, reporterVars>>

\* select case <-readDone: nothing, loop again
CoordReadDone ==
    /\ cpc = "loop"
    /\ readDone
    /\ UNCHANGED vars

\* complete: u.sortParts(parts); adapter.CompleteMultipartUpload(...) returns
\* nil, and u.reporter.Complete() and u.reporter.Close() follow, or it returns
\* an error
CoordComplete ==
    /\ cpc = "complete"
    /\ completeCalls' = completeCalls + 1
    /\ completeArg' = sortParts(parts)
    /\ parts' = sortParts(parts)
    /\ \/ /\ completeOK' = TRUE
          /\ reporterComplete' = reporterComplete + 1
          /\ reporterClose' = reporterClose + 1
          /\ UNCHANGED err
       \/ /\ err' = "complete"
          /\ UNCHANGED <<completeOK, reporterComplete, reporterClose>>
    /\ cpc' = "defer"
    /\ UNCHANGED <<inputVars, cancelled, cancelInFlight, pool, chanVars, readerVars,
                   workerVars, abortDeferred, initCalls, abortCalls, reporterInit>>

\* mutant: the deferred abort tests an err that the complete path does not set
\* (CompleteMultipartUpload's error kept in a shadowing variable)
AbortNeeded_ShadowedErr(registered, e) == registered /\ e \in {"ctx", "read", "part"}

\* mutant: the abort is deferred before InitMultipartUpload has returned an
\* upload id, so it also runs when init failed
AbortNeeded_Unregistered(registered, e) == e # "nil"

\* the deferred abort's condition: it is registered and err is not nil
AbortNeeded(registered, e) == registered /\ e # "nil"

\* mutant: the deferred close runs whether or not err is nil
CloseNeeded_Always(e) == TRUE

\* the deferred close's condition: err is not nil
CloseNeeded(e) == e # "nil"

\* Upload returns: the deferred functions run (the abort, then the reporter's
\* close), then the caller resumes
CoordDeferred ==
    /\ cpc = "defer"
    /\ abortCalls' = IF AbortNeeded(abortDeferred, err) THEN abortCalls + 1 ELSE abortCalls
    /\ reporterClose' = IF CloseNeeded(err) THEN reporterClose + 1 ELSE reporterClose
    /\ cpc' = "returned"
    /\ UNCHANGED <<inputVars, cancelled, cancelInFlight, pool, chanVars, readerVars,
                   workerVars, parts, err, abortDeferred, initCalls, completeCalls,
                   completeArg, completeOK, reporterInit, reporterComplete>>

\* ---- the system ----
ReaderStep ==
    \/ ReaderLoopTop
    \/ ReaderRead
    \/ ReaderSendErr
    \/ ReaderSend
    \/ ReaderCloseReadDone

WorkerStep(w) ==
    \/ WorkerRecv(w)
    \/ WorkerCheckCtx(w)
    \/ WorkerUploadPartReturn(w)
    \/ WorkerSendResult(w)
    \/ WorkerSendError(w)

CoordStep ==
    \/ CoordInitOK
    \/ CoordInitFail
    \/ CoordCtxDone
    \/ CoordRecvResult
    \/ CoordResultClosed
    \/ CoordRecvError
    \/ CoordReadDone
    \/ CoordComplete
    \/ CoordDeferred

\* a step of one of the goroutines Upload started
TaskStep ==
    \/ ReaderStep
    \/ \E w \in Workers : WorkerStep(w)
    \/ CloserClose

Next ==
    \/ Cancel
    \/ CoordStep
    \/ TaskStep

Spec == Init /\ [][Next]_vars

\* ---- runBackup: the producer, the pipe, the task that calls Upload ----
\* The producer writes the archive into the write end of an io.Pipe and the
\* uploader reads the other end.  srcLen is the number of bytes the producer
\* writes before Archive returns, with nil or with an error (a failure of the
\* walk, or ctx.Err() at a node boundary).  The writer is the pipe itself
\* (cfg.Encryption.Enabled is false).

\* capacity of errChan
DrvErrChanCap == 3

\* an io.Pipe holds nothing: a Write returns when reads have taken all its
\* bytes.  Every Write of the producer has returned when every byte is
\* consumed, the last ones possibly by a ReadFull that waits for more.
AllWritesReturned ==
    \/ readPos = srcLen
    \/ rpc = "read" /\ srcLen - readPos < rbuf.len

\* the producer is inside pw.Write
ProducerBlocked == ppc = "writing" /\ ~AllWritesReturned

\* runBackup entered: both tasks started, runBackup waits on errChan
DriverInit ==
    /\ UploaderInit
    /\ ppc = "writing" /\ upc = "calling" /\ mpc = "wait" /\ drvErrChan = <<>>
    /\ CipherIdle
    /\ LibIdle

\* Archive returned nil: the task returns and the deferred pw.Close() runs
ProducerEnd ==
    /\ ppc = "writing"
    /\ AllWritesReturned
    /\ ppc' = "closed"
    /\ UNCHANGED <<cipherVars, libVars, concurrency, chunkSize, srcLen, upc, mpc, drvErrChan, cancelled,
                   cancelInFlight, pool, chanVars, readerVars, workerVars, coordVars>>

\* Archive returned an error: cancel(); errChan <- "failed to archive"
ProducerFail ==
    /\ ppc = "writing"
    /\ AllWritesReturned
    /\ Len(drvErrChan) < DrvErrChanCap
    /\ cancelled' = TRUE
    /\ cancelInFlight' = IF cancelled THEN cancelInFlight ELSE (cpc = "loop" /\ InFlight)
    /\ drvErrChan' = Append(drvErrChan, "archive")
    /\ ppc' = "failed"
    /\ UNCHANGED <<cipherVars, libVars, concurrency, chunkSize, srcLen, upc, mpc, pool, chanVars,
                   readerVars, workerVars, coordVars>>

\* the failed producer returns: the deferred pw.Close() runs
ProducerClose ==
    /\ ppc = "failed"
    /\ ppc' = "closedFailed"
    /\ UNCHANGED <<cipherVars, libVars, concurrency, chunkSize, srcLen, upc, mpc, drvErrChan, cancelled,
                   cancelInFlight, pool, chanVars, readerVars, workerVars, coordVars>>

ProducerStep ==
    \/ ProducerEnd
    \/ ProducerFail
    \/ ProducerClose

\* Upload returned to the task that called it: on an error cancel() and
\* errChan <- "failed to upload", else errChan <- nil
DrvUploadReturn ==
    /\ upc = "calling"
    /\ cpc = "returned"
    /\ Len(drvErrChan) < DrvErrChanCap
    /\ IF err # "nil"
       THEN /\ cancelled' = TRUE
            /\ cancelInFlight' = IF cancelled THEN cancelInFlight
                                               ELSE (cpc = "loop" /\ InFlight)
            /\ drvErrChan' = Append(drvErrChan, "upload")
       ELSE /\ drvErrChan' = Append(drvErrChan, "nil")
            /\ UNCHANGED <<cancelled, cancelInFlight>>
    /\ upc' = "done"
    /\ UNCHANGED <<cipherVars, libVars, concurrency, chunkSize, srcLen, ppc, mpc, pool, chanVars,
                   readerVars, workerVars, coordVars>>

\* `if err := <-errChan; err != nil { return err }`: runBackup returns on the
\* first value it receives
DrvMainRecv ==
    /\ mpc = "wait"
    /\ drvErrChan # <<>>
    /\ mpc' = IF Head(drvErrChan) = "nil" THEN "exitOK" ELSE "exitErr"
    /\ drvErrChan' = Tail(drvErrChan)
    /\ UNCHANGED <<cipherVars, libVars, concurrency, chunkSize, srcLen, ppc, upc, cancelled, cancelInFlight,
                   pool, chanVars, readerVars, workerVars, coordVars>>

\* runBackup has not returned: the process and its tasks are alive
Running == mpc = "wait"

\* The tasks run until runBackup returns and the process ends.  Cancel is the
\* 24-hour timeout of ctx.  ReaderSendErr is absent: a pipe whose write end is
\* closed by pw.Close() gives readChunks no error other than end-of-stream.
DriverNext ==
    \/ Running /\ Cancel
    \/ Running /\ CoordInitOK
    \/ Running /\ CoordInitFail
    \/ Running /\ CoordCtxDone
    \/ Running /\ CoordRecvResult
    \/ Running /\ CoordResultClosed
    \/ Running /\ CoordRecvError
    \/ Running /\ CoordReadDone
    \/ Running /\ CoordComplete
    \/ Running /\ CoordDeferred
    \/ Running /\ ReaderLoopTop
    \/ Running /\ ReaderRead
    \/ Running /\ ReaderSend
    \/ Running /\ ReaderCloseReadDone
    \/ \E w \in Workers : Running /\ WorkerRecv(w)
    \/ \E w \in Workers : Running /\ WorkerCheckCtx(w)
    \/ \E w \in Workers : Running /\ WorkerUploadPartReturn(w)
    \/ \E w \in Workers : Running /\ WorkerSendResult(w)
    \/ \E w \in Workers : Running /\ WorkerSendError(w)
    \/ Running /\ CloserClose
    \/ Running /\ ProducerEnd
    \/ Running /\ ProducerFail
    \/ Running /\ ProducerClose
    \/ Running /\ DrvUploadReturn
    \/ Running /\ DrvMainRecv

SpecDriver == DriverInit /\ [][DriverNext]_vars

\* ---- the stream cipher (package crypto): StreamEncryptor, EncryptWriter,
\* the verifying reader ----
\* Bytes are integers 0..255.  The container is the sequence of bytes the
\* EncryptWriter emits: magic, IV, ciphertext, length, tag.

\* bound: the plaintext bytes written in one run
MaxPlainLen == 2

AESKeySize == 32
HMACKeySize == 64
IVSize == 16
\* the length field of the trailer, bytes
LenFieldSize == 8
\* the HMAC-SHA-512 tag, bytes
TagSize == 64
\* the verifying reader's buffer, 32*1024
ReadBufSize == 32768

\* "S3BE"
Magic == <<83, 51, 66, 69>>

\* the key lengths tried, the byte values written, the IVs drawn
KeyLens == {16, AESKeySize, HMACKeySize}
PlainBytes == {0, 77}
IVs == {[i \in 1..IVSize |-> v] : v \in {3, 200}}

\* what one Write is given: byte strings of at most MaxPlainLen bytes
Pieces == UNION {[1..n -> PlainBytes] : n \in 0..MaxPlainLen}

\* exclusive or of two bytes
RECURSIVE XorBits(_, _, _)
XorBits(x, y, k) ==
    IF k = 0 THEN 0
    ELSE (((x % 2) + (y % 2)) % 2) + 2 * XorBits(x \div 2, y \div 2, k - 1)

XOR(x, y) == XorBits(x, y, 8)

\* the byte at position i of the AES-256-CTR key stream of the keys and an IV
\* (a stand-in for the block cipher: a fixed function of the IV and i)
KeyStreamByte(iv, i) == ((iv[1] * 7) + (i * 13) + 5) % 256

\* stream.XORKeyStream(dst, data) with the stream at position pos
XORKeyStream(iv, pos, data) ==
    [i \in 1..Len(data) |-> XOR(data[i], KeyStreamByte(iv, pos + i - 1))]

\* binary.BigEndian.PutUint64 into k bytes: the most significant byte first
RECURSIVE PutUintBE(_, _)
PutUintBE(v, k) ==
    IF k = 0 THEN <<>> ELSE PutUintBE(v \div 256, k - 1) \o <<(v % 256)>>

\* the length written least significant byte first
LengthBytes_LittleEndian(position) ==
    [i \in 1..LenFieldSize |-> PutUintBE(position, LenFieldSize)[LenFieldSize + 1 - i]]

\* lengthBytes of Close
LengthBytes(position) == PutUintBE(position, LenFieldSize)

\* the hash state after hmac.Write of `data` (hmac.Write appends, so the
\* state is kept as the data written so far); a stand-in for HMAC-SHA-512
\* under the authentication key
RECURSIVE HashFold(_)
HashFold(data) ==
    IF data = <<>> THEN 1
    ELSE ((HashFold(SubSeq(data, 1, Len(data) - 1)) * 257) + data[Len(data)] + 1) % 7999993

\* hmac.Sum(nil): the 64-byte tag of the data written so far
HMACSum(data) ==
    LET h == HashFold(data) IN
    [j \in 1..TagSize |->
        IF j = 1 THEN h % 256
        ELSE IF j = 2 THEN (h \div 256) % 256
        ELSE IF j = 3 THEN (h \div 65536) % 256
        ELSE (h + j) % 256]

\* NewStreamEncryptor without the check of the HMAC key
NewStreamEncryptor_NoHMACKeyCheck(a, h) ==
    IF a # AESKeySize THEN "nil" ELSE "ok"

\* NewStreamEncryptor: "ok" is a *StreamEncryptor, "nil" is (nil, error)
NewStreamEncryptor(a, h) ==
    IF a # AESKeySize THEN "nil"
    ELSE IF h # HMACKeySize THEN "nil"
    ELSE "ok"
\* everything but the stream cipher
restVars == <<concurrency, chunkSize, srcLen, driverVars, cancelled, cancelInFlight,
              pool, chanVars, readerVars, workerVars, coordVars, libVars>>

\* a caller is about to construct the cipher with keys of some lengths
CipherInit ==
    /\ UploaderInit
    /\ concurrency = 1 /\ chunkSize = 1 /\ srcLen = 0
    /\ DriverIdle
    /\ aesKeyLen \in KeyLens /\ hmacKeyLen \in KeyLens /\ encryptor = "none"
    /\ ew = NoWriter /\ sink = <<>> /\ plain = <<>> /\ ewErr = "nil"
    /\ src = <<>> /\ dr = NoVerifier /\ pLen = 0 /\ srcRead = 0
    /\ delivered = <<>> /\ dErr = "nil"
    /\ LibIdle

\* NewStreamEncryptor(aesKey, hmacKey) is called
CallNewStreamEncryptor ==
    /\ encryptor = "none"
    /\ encryptor' = NewStreamEncryptor(aesKeyLen, hmacKeyLen)
    /\ UNCHANGED <<aesKeyLen, hmacKeyLen, writerVars, verifierVars, restVars>>

\* WrapWriter(w): a random IV, then magic and IV are written to w; each
\* write to w may fail, and then no EncryptWriter is returned
WrapWriter ==
    /\ encryptor = "ok" /\ ew.state = "none" /\ ewErr = "nil"
    /\ \E iv \in IVs :
          \/ /\ ewErr' = "write"
             /\ UNCHANGED <<ew, sink>>
          \/ /\ sink' = sink \o Magic
             /\ ewErr' = "write"
             /\ UNCHANGED ew
          \/ /\ sink' = sink \o Magic \o iv
             /\ ew' = [state |-> "open", iv |-> iv, stream |-> 0, hmac |-> <<>>,
                       position |-> 0, late |-> FALSE]
             /\ UNCHANGED ewErr
    /\ UNCHANGED <<aesKeyLen, hmacKeyLen, encryptor, plain, verifierVars, restVars>>

\* EncryptWriter.Write(p): nothing for an empty p; else encrypt, update the
\* HMAC, write to w, and count the bytes if w took them.  Write looks at no
\* state that Close sets.
EwWrite(p) ==
    /\ ew.state \in {"open", "closed"} /\ ewErr = "nil"
    /\ dr.state = "none" /\ dErr = "nil"
    /\ Len(plain) + Len(p) <= MaxPlainLen
    /\ IF Len(p) = 0
       THEN UNCHANGED <<ew, sink, plain, ewErr>>
       ELSE LET encrypted == XORKeyStream(ew.iv, ew.stream, p) IN
            \/ /\ ew' = [ew EXCEPT !.stream = ew.stream + Len(p),
                                   !.hmac = ew.hmac \o encrypted,
                                   !.late = (ew.state = "closed")]
               /\ ewErr' = "write"
               /\ UNCHANGED <<sink, plain>>
            \/ /\ ew' = [ew EXCEPT !.stream = ew.stream + Len(p),
                                   !.hmac = ew.hmac \o encrypted,
                                   !.position = ew.position + Len(p),
                                   !.late = (ew.state = "closed")]
               /\ sink' = sink \o encrypted
               /\ plain' = plain \o p
               /\ UNCHANGED ewErr
    /\ UNCHANGED <<aesKeyLen, hmacKeyLen, encryptor, verifierVars, restVars>>

\* EncryptWriter.Close(): the length, then the tag; each write may fail
EwClose ==
    /\ ew.state = "open" /\ ewErr = "nil"
    /\ ew' = [ew EXCEPT !.state = "closed"]
    /\ \/ /\ ewErr' = "write"
          /\ UNCHANGED sink
       \/ /\ sink' = sink \o LengthBytes(ew.position)
          /\ ewErr' = "write"
       \/ /\ sink' = sink \o LengthBytes(ew.position) \o HMACSum(ew.hmac)
          /\ UNCHANGED ewErr
    /\ UNCHANGED <<aesKeyLen, hmacKeyLen, encryptor, plain, verifierVars, restVars>>
\* the header the verifying reader reads first: magic and IV
HeaderLen == Len(Magic) + IVSize

\* one bit of byte i changed
FlipByte(c, i) == [c EXCEPT ![i] = XOR(c[i], 1)]

\* a container as an attacker or a broken transfer leaves it: a byte of the
\* magic, the first byte after the header, the low byte of the length field
\* or the last byte of the tag changed; the last byte or all but 3 bytes lost
Tamperings(c) ==
    {FlipByte(c, i) : i \in {1, HeaderLen + 1, Len(c) - TagSize, Len(c)} \cap (1..Len(c))}
        \cup {SubSeq(c, 1, Len(c) - 1), SubSeq(c, 1, 3)}

\* len(p) of the consumer's Read calls
ConsumerBufSizes == {1, ReadBufSize}

\* how many bytes a Read of the underlying reader returns at a time: at
\* least one, at most the buffer
ReadCounts == {1, LenFieldSize, ReadBufSize}

\* WrapReaderWithHMAC(r): read the header, check the magic, take the IV
WrapReaderWithHMAC ==
    /\ encryptor = "ok" /\ ew.state = "closed" /\ ewErr = "nil"
    /\ dr.state = "none" /\ dErr = "nil"
    /\ \E c \in {sink} \cup Tamperings(sink), n \in ConsumerBufSizes, k \in ReadCounts :
          /\ src' = c
          /\ pLen' = n
          /\ srcRead' = k
          /\ IF Len(c) < HeaderLen
             THEN dErr' = "header" /\ UNCHANGED dr
             ELSE IF SubSeq(c, 1, Len(Magic)) # Magic
             THEN dErr' = "magic" /\ UNCHANGED dr
             ELSE /\ dr' = [state |-> "open", iv |-> SubSeq(c, Len(Magic) + 1, HeaderLen),
                            stream |-> 0, hmac |-> <<>>, position |-> 0,
                            srcPos |-> HeaderLen, sawEOF |-> FALSE]
                  /\ UNCHANGED dErr
    /\ UNCHANGED <<aesKeyLen, hmacKeyLen, encryptor, writerVars, delivered, restVars>>

\* decryptReaderWithHMACImpl.Read(p), len(p) > 0: read up to the buffer's size
\* from the underlying reader, decrypt all of it, feed all of it to the HMAC,
\* copy(p, decrypted) and return n
DRead ==
    /\ dr.state = "open" /\ ~dr.sawEOF /\ dErr = "nil"
    /\ LET rem == Len(src) - dr.srcPos IN
       \/ \* the underlying reader fails
          /\ dErr' = "read"
          /\ UNCHANGED <<dr, delivered>>
       \/ /\ rem = 0
          /\ dr' = [dr EXCEPT !.sawEOF = TRUE]
          /\ UNCHANGED <<delivered, dErr>>
       \/ /\ rem > 0
          /\ LET n == Min(srcRead, rem)
                 got == SubSeq(src, dr.srcPos + 1, dr.srcPos + n)
                 decrypted == XORKeyStream(dr.iv, dr.stream, got)
            IN /\ dr' = [dr EXCEPT !.stream = dr.stream + n,
                                   !.hmac = dr.hmac \o got,
                                   !.position = dr.position + n,
                                   !.srcPos = dr.srcPos + n]
               /\ delivered' = delivered \o SubSeq(decrypted, 1, Min(pLen, n))
               /\ UNCHANGED dErr
    /\ UNCHANGED <<aesKeyLen, hmacKeyLen, encryptor, writerVars, src, pLen, srcRead,
                   restVars>>

\* decryptReaderWithHMACImpl.Close(): io.ReadFull of 64 more bytes from the
\* underlying reader, compared with the HMAC of what Read has read
DClose ==
    /\ dr.state = "open" /\ dErr = "nil"
    /\ LET rem == Len(src) - dr.srcPos
           expectedHMAC == SubSeq(src, dr.srcPos + 1, dr.srcPos + TagSize)
       IN /\ dr' = [dr EXCEPT !.state = "closed", !.srcPos = dr.srcPos + Min(rem, TagSize)]
          /\ dErr' = IF rem < TagSize THEN "readHMAC"
                     ELSE IF HMACSum(dr.hmac) # expectedHMAC THEN "verify"
                     ELSE "nil"
    /\ UNCHANGED <<aesKeyLen, hmacKeyLen, encryptor, writerVars, src, pLen, srcRead,
                   delivered, restVars>>

CipherNext ==
    \/ CallNewStreamEncryptor
    \/ WrapWriter
    \/ \E p \in Pieces : EwWrite(p)
    \/ EwClose
    \/ WrapReaderWithHMAC
    \/ DRead
    \/ DClose

SpecCipher == CipherInit /\ [][CipherNext]_vars

\* ---- what the claims speak of ----

\* InitMultipartUpload returned an upload id
InitSucceeded == abortDeferred

\* Upload has returned to its caller
Returned == cpc = "returned"

\* Upload has returned nil
ReturnedSuccess == Returned /\ err = "nil"

\* every goroutine Upload started has ended
AllTasksDone ==
    /\ rpc = "done"
    /\ \A w \in Workers : wpc[w] = "done"
    /\ resultClosed

\* chunks the reader has cut from the source so far
ChunksProduced == (partNumber - 1) + (IF rpc = "send" THEN 1 ELSE 0)

\* chunk buffers obtained and not yet released: the reader's, the queued ones
\* and the ones workers hold
BuffersOutstanding ==
    (IF rpc \in {"read", "send"} THEN 1 ELSE 0)
    + Len(chunkChan)
    + Cardinality({w \in Workers : wchunk[w] # NoChunk})

\* the bodies given to UploadPart, concatenated in ascending part number
RECURSIVE ConcatBodies(_)
ConcatBodies(calls) ==
    IF calls = {} THEN <<>>
    ELSE LET first == CHOOSE c \in calls : \A d \in calls : c.partNumber <= d.partNumber
         IN first.data \o ConcatBodies(calls \ {first})

\* the bytes read from the source so far
SourceRead == [i \in 1..readPos |-> i]

\* the part list 1..k with each part's ETag
DenseParts(k) == [i \in 1..k |-> [partNumber |-> i, etag |-> ETagOf(i)]]

\* ---- claims ----

\* C1: CompleteMultipartUpload is never invoked in a run in which some
\* UploadPart call returned an error.
C1_NoCompleteAfterPartError == partErrSeen => completeCalls = 0

\* C2: when InitMultipartUpload succeeded and the run fails (a read error, an
\* UploadPart error, a CompleteMultipartUpload error or cancellation), Upload
\* has called AbortMultipartUpload exactly once when it returns.
C2_AbortOnceOnFailure ==
    (Returned /\ InitSucceeded
       /\ (readErrSeen \/ partErrSeen \/ err = "complete" \/ err = "ctx"))
    => abortCalls = 1

\* C3: when ctx is cancelled while parts are being read or uploaded, Upload
\* never calls CompleteMultipartUpload, and it returns the cancellation error
\* after one AbortMultipartUpload.
C3_CancelAborts ==
    cancelInFlight =>
        /\ completeCalls = 0
        /\ Returned => (err = "ctx" /\ abortCalls = 1)

\* C4: when Upload returns success, the part list given to
\* CompleteMultipartUpload is 1, 2, ..., k in this order, k being the number
\* of chunks the reader produced.
C4_PartsDenseAndSorted == ReturnedSuccess => completeArg = DenseParts(ChunksProduced)

\* C5: when Upload returns success, the bodies given to UploadPart,
\* concatenated in ascending part number, are the bytes read from the source.
C5_BodiesAreTheSource == ReturnedSuccess => ConcatBodies(uploadCalls) = SourceRead

\* C6: at most concurrency + 1 chunk buffers are outstanding at any time.
C6_BoundedBuffers == BuffersOutstanding <= concurrency + 1

\* C7: after Upload returned because of cancellation no task it started is
\* blocked for ever: either all of them have ended or one of them can step.
C7_TasksEndAfterCancel ==
    (Returned /\ err = "ctx") => (AllTasksDone \/ ENABLED TaskStep)

\* C8: every part given to UploadPart other than the last has exactly
\* chunkSize bytes, and the last has between 1 and chunkSize bytes.
C8_PartSizes ==
    \A c \in uploadCalls :
        /\ Len(c.data) \in 1..chunkSize
        /\ c.partNumber < ChunksProduced => Len(c.data) = chunkSize

\* C9: when the source returned a read error or an UploadPart call failed,
\* Upload does not return success.
C9_ErrorIsReturned == (Returned /\ (readErrSeen \/ partErrSeen)) => err # "nil"

\* C10: when Upload returns after a successful InitMultipartUpload, either
\* CompleteMultipartUpload succeeded and no abort was issued, or it did not
\* succeed and exactly one AbortMultipartUpload was issued.
C10_ExactlyOneTerminator ==
    (Returned /\ InitSucceeded) =>
        \/ completeOK /\ abortCalls = 0
        \/ ~completeOK /\ abortCalls = 1

\* C10 witness: Upload returned after CompleteMultipartUpload failed and the
\* upload was aborted.
C10_Witness ==
    Returned /\ InitSucceeded /\ completeCalls = 1 /\ ~completeOK /\ abortCalls = 1

\* total size of the parts whose UploadPart returned an ETag
RECURSIVE SizeOfCalls(_)
SizeOfCalls(calls) ==
    IF calls = {} THEN 0
    ELSE LET c == CHOOSE x \in calls : TRUE
         IN Len(c.data) + SizeOfCalls(calls \ {c})

SizeOfOKParts == SizeOfCalls({c \in uploadCalls : c.partNumber \in partsOK})

\* C11: when InitMultipartUpload fails, Upload returns the init error and
\* calls neither UploadPart nor CompleteMultipartUpload nor
\* AbortMultipartUpload.
C11_InitFailureNoBackendCall ==
    /\ err = "init" =>
          (initCalls = 1 /\ uploadCalls = {} /\ completeCalls = 0 /\ abortCalls = 0)
    /\ (Returned /\ ~InitSucceeded) => err = "init"

\* C11 witness: Upload has returned after InitMultipartUpload failed.
C11_Witness == Returned /\ err = "init" /\ initCalls = 1 /\ ~InitSucceeded

\* C14: the sum of the progress Add(n) values never exceeds the size of the
\* parts uploaded successfully, and when Upload returns success it is the
\* number of bytes read from the source.
C14_ProgressSumExact ==
    /\ reporterAdded <= SizeOfOKParts
    /\ ReturnedSuccess => reporterAdded = readPos

\* C15: the reporter's Init is called once; when Upload has returned, Close
\* has been called exactly once, and Complete once if Upload returned nil and
\* never otherwise.
C15_ReporterCalledOnce ==
    /\ reporterInit = (IF cpc = "start" THEN 0 ELSE 1)
    /\ reporterClose <= 1
    /\ reporterComplete <= 1
    /\ Returned =>
          /\ reporterClose = 1
          /\ reporterComplete = (IF err = "nil" THEN 1 ELSE 0)

\* C15 witness: Upload returned the cancellation error with the reporter
\* closed and not completed.
C15_Witness ==
    Returned /\ err = "ctx" /\ reporterInit = 1 /\ reporterClose = 1
      /\ reporterComplete = 0

\* C12: when the producer fails or is cancelled before it has emitted the
\* complete archive, CompleteMultipartUpload is not called
C12_NoCompleteAfterProducerFailure ==
    ppc \in {"failed", "closedFailed"} => completeCalls = 0

\* C13: when the uploader fails while the producer is blocked writing to the
\* pipe, the producer is unblocked (its write returns, so that its task can
\* go on to terminate).  Upload has returned its error and readChunks has
\* returned or was never started, so nothing reads the pipe any more.
C13_ProducerUnblocked ==
    (Returned /\ err # "nil" /\ rpc \in {"done", "unspawned"} /\ ppc = "writing")
        => ENABLED ProducerStep

\* ---- the stream cipher's claims (SpecCipher) ----

\* the EncryptWriter was closed once, every write to w succeeded and no Write
\* came after Close: the sink holds one finished container
ContainerWritten == ew.state = "closed" /\ ewErr = "nil" /\ ~ew.late

\* the verifying reader was given the container as the writer left it
Untampered == dr.state # "none" /\ src = sink

\* the byte string b, read most significant byte first, is the value v
RECURSIVE IsBigEndianOf(_, _)
IsBigEndianOf(b, v) ==
    IF b = <<>> THEN v = 0
    ELSE /\ b[Len(b)] = v % 256
         /\ IsBigEndianOf(SubSeq(b, 1, Len(b) - 1), v \div 256)

\* C16: reading the container of a plaintext P through the verifying reader
\* to end-of-stream delivers exactly P, and the final verification succeeds
C16_RoundTrip ==
    (ContainerWritten /\ Untampered) =>
        /\ dr.sawEOF => delivered = plain
        /\ (dr.sawEOF /\ dr.state = "closed") => dErr = "nil"

\* C17: from a container that was modified or truncated the verifying reader
\* delivers no plaintext byte
C17_NoUnauthenticatedPlaintext ==
    (ContainerWritten /\ dr.state # "none" /\ src # sink) => delivered = <<>>

C19_SealedAfterClose ==
    [][(ew.state = "closed" /\ \E p \in Pieces \ {<<>>} : EwWrite(p))
           => (sink' = sink /\ ewErr' # "nil")]_vars

\* C20: NewStreamEncryptor returns a cipher exactly when the confidentiality
\* key has 32 bytes and the authentication key has 64; otherwise it returns
\* none, and nothing can be wrapped
C20_ConstructionIffKeyLengths ==
    encryptor # "none" =>
        /\ encryptor = "ok" <=> (aesKeyLen = 32 /\ hmacKeyLen = 64)
        /\ encryptor # "ok" => (encryptor = "nil" /\ ew.state = "none" /\ dr.state = "none")

\* a 32-byte confidentiality key with a wrong authentication key is refused
C20_Witness ==
    encryptor = "nil" /\ aesKeyLen = 32 /\ hmacKeyLen # 64

\* ---- normalizeEndpoint (package storage) ----
\* A string is the sequence of its characters.

\* everything but the functions of the storage, archive and config packages
quietVars == <<concurrency, chunkSize, srcLen, driverVars, cipherVars, cancelled,
               cancelInFlight, pool, chanVars, readerVars, workerVars, coordVars,
               lateVars>>

\* the uploader, runBackup and the stream cipher are not in use
QuietInit ==
    /\ UploaderInit
    /\ concurrency = 1 /\ chunkSize = 1 /\ srcLen = 0
    /\ DriverIdle
    /\ CipherIdle
    /\ LateIdle

\* bound: the white space before and after an endpoint, characters
MaxEndpointPad == 2

\* white space as strings.TrimSpace sees it
WhiteSpace == {" ", "\t", "\n", "\r"}

UpperLetters == <<"A", "B", "C", "D", "E", "F", "G", "H", "I", "J", "K", "L", "M",
                  "N", "O", "P", "Q", "R", "S", "T", "U", "V", "W", "X", "Y", "Z">>
LowerLetters == <<"a", "b", "c", "d", "e", "f", "g", "h", "i", "j", "k", "l", "m",
                  "n", "o", "p", "q", "r", "s", "t", "u", "v", "w", "x", "y", "z">>

\* strings.ToLower of one character
LowerChar(c) ==
    IF \E i \in 1..Len(UpperLetters) : UpperLetters[i] = c
    THEN LowerLetters[CHOOSE i \in 1..Len(UpperLetters) : UpperLetters[i] = c]
    ELSE c

\* strings.ToLower
ToLower(str) == [i \in 1..Len(str) |-> LowerChar(str[i])]

\* a prefix test that never succeeds
HasPrefix_Never(str, prefix) == FALSE

\* strings.HasPrefix
HasPrefix(str, prefix) ==
    Len(str) >= Len(prefix) /\ SubSeq(str, 1, Len(prefix)) = prefix

\* strings.TrimSpace: leading and trailing white space removed
RECURSIVE TrimLeft(_)
TrimLeft(str) ==
    IF str # <<>> /\ Head(str) \in WhiteSpace THEN TrimLeft(Tail(str)) ELSE str

RECURSIVE TrimRight(_)
TrimRight(str) ==
    IF str # <<>> /\ str[Len(str)] \in WhiteSpace
    THEN TrimRight(SubSeq(str, 1, Len(str) - 1))
    ELSE str

TrimSpace(str) == TrimRight(TrimLeft(str))

HttpPrefix == <<"h", "t", "t", "p", ":", "/", "/">>
HttpsPrefix == <<"h", "t", "t", "p", "s", ":", "/", "/">>

\* normalizeEndpoint that only trims
normalizeEndpoint_NoPrepend(endpoint) == TrimSpace(endpoint)

normalizeEndpoint(endpoint) ==
    IF endpoint = <<>> THEN endpoint
    ELSE LET trimmed == TrimSpace(endpoint) IN
         IF /\ ~HasPrefix(ToLower(trimmed), HttpPrefix)
            /\ ~HasPrefix(ToLower(trimmed), HttpsPrefix)
         THEN HttpsPrefix \o trimmed
         ELSE trimmed

\* the endpoints tried: white space, a scheme or what looks like one, a host,
\* white space
EndpointPads == UNION {[1..n -> {" ", "\t"}] : n \in 0..MaxEndpointPad}
EndpointSchemes ==
    {<<>>, HttpPrefix, HttpsPrefix,
     <<"H", "T", "T", "P", ":", "/", "/">>,
     <<"H", "t", "T", "p", "S", ":", "/", "/">>,
     <<"h", "t", "t", "p", ":", "/">>,
     <<"f", "t", "p", ":", "/", "/">>}
EndpointHosts == {<<>>, <<"s", "3">>, <<"a", " ", "b">>}
EndpointInputs ==
    {a \o sch \o h \o b : a \in EndpointPads, sch \in EndpointSchemes,
                          h \in EndpointHosts, b \in EndpointPads}

EndpointInit ==
    /\ QuietInit
    /\ epInput \in EndpointInputs
    /\ epResults = <<>>
    /\ ClassIdle
    /\ ArchiveIdle
    /\ ConfigIdle

\* normalizeEndpoint is applied to the endpoint, then to its own result
ApplyNormalizeEndpoint ==
    /\ Len(epResults) < 2
    /\ epResults' = Append(epResults,
                           normalizeEndpoint(IF epResults = <<>> THEN epInput
                                             ELSE epResults[Len(epResults)]))
    /\ UNCHANGED <<quietVars, epInput, classVars, archiveVars, configVars>>

EndpointNext == ApplyNormalizeEndpoint

SpecEndpoint == EndpointInit /\ [][EndpointNext]_vars

\* C21: normalizeEndpoint is idempotent
C21_NormalizeIdempotent ==
    Len(epResults) = 2 => epResults[2] = epResults[1]

\* an endpoint with white space around an upper-case scheme, normalised twice
C21_Witness ==
    /\ Len(epResults) = 2
    /\ epInput # <<>> /\ Head(epInput) \in WhiteSpace
    /\ HasPrefix(epResults[1], <<"H", "T", "T", "P", ":", "/", "/">>)

\* C22 as stated: the result for a non-empty endpoint begins with http:// or
\* https://
C22_BeginsWithScheme ==
    (epInput # <<>> /\ epResults # <<>>) =>
        \/ HasPrefix(epResults[1], HttpPrefix)
        \/ HasPrefix(epResults[1], HttpsPrefix)

\* C22 amended: the result for a non-empty endpoint begins with http:// or
\* https:// in some letter case; the case is the input's own when the input
\* had the scheme, and lower case when https:// was prepended
C22_BeginsWithSchemeAnyCase ==
    (epInput # <<>> /\ epResults # <<>>) =>
        /\ \/ HasPrefix(ToLower(epResults[1]), HttpPrefix)
           \/ HasPrefix(ToLower(epResults[1]), HttpsPrefix)
        /\ \/ epResults[1] = TrimSpace(epInput)
           \/ epResults[1] = HttpsPrefix \o TrimSpace(epInput)

\* a white-space-only endpoint has become the bare scheme
C22_Witness ==
    /\ epInput # <<>> /\ TrimSpace(epInput) = <<>>
    /\ epResults # <<>> /\ epResults[1] = HttpsPrefix

\* ---- storage classes (package storage) and their way from the
\* configuration to the create-upload request ----

StorageClassStandard == "STANDARD"
StorageClassInfrequent == "INFREQUENT_ACCESS"
StorageClassArchive == "ARCHIVE"
StorageClassDeepArchive == "DEEP_ARCHIVE"
StorageClassGlacierIR == "GLACIER_IR"
StorageClassIntelligentTiering == "INTELLIGENT_TIERING"

ParseStorageClass(str) ==
    IF str \in {"standard", "STANDARD"} THEN StorageClassStandard
    ELSE IF str \in {"ia", "infrequent", "INFREQUENT_ACCESS"} THEN StorageClassInfrequent
    ELSE IF str \in {"archive", "ARCHIVE"} THEN StorageClassArchive
    ELSE IF str \in {"deep_archive", "DEEP_ARCHIVE"} THEN StorageClassDeepArchive
    ELSE IF str \in {"glacier_ir", "GLACIER_IR"} THEN StorageClassGlacierIR
    ELSE IF str \in {"intelligent", "INTELLIGENT_TIERING"} THEN StorageClassIntelligentTiering
    ELSE StorageClassStandard

\* StorageClass.IsValid
IsValid(sc) ==
    sc \in {StorageClassStandard, StorageClassInfrequent, StorageClassArchive,
            StorageClassDeepArchive, StorageClassGlacierIR,
            StorageClassIntelligentTiering}

\* SupportedStorageClasses of the three adapters
awsSupportedStorageClasses ==
    {StorageClassStandard, StorageClassInfrequent, StorageClassArchive,
     StorageClassDeepArchive, StorageClassGlacierIR, StorageClassIntelligentTiering}
qiniuSupportedStorageClasses ==
    {StorageClassStandard, StorageClassInfrequent, StorageClassArchive,
     StorageClassDeepArchive}
aliyunSupportedStorageClasses ==
    {StorageClassStandard, StorageClassInfrequent, StorageClassArchive,
     StorageClassDeepArchive}

SupportedStorageClasses(provider) ==
    IF provider = "aws" THEN awsSupportedStorageClasses
    ELSE IF provider = "qiniu" THEN qiniuSupportedStorageClasses
    ELSE aliyunSupportedStorageClasses

\* AWSAdapter: types.StorageClass(opts.StorageClass.String())
awsStorageClass(sc) == sc

\* QiniuAdapter.mapStorageClass
qiniuMapStorageClass(sc) ==
    IF sc = StorageClassStandard THEN "0"
    ELSE IF sc = StorageClassInfrequent THEN "1"
    ELSE IF sc = StorageClassArchive THEN "2"
    ELSE IF sc = StorageClassDeepArchive THEN "3"
    ELSE IF sc = StorageClassGlacierIR THEN "4"
    ELSE IF sc = StorageClassIntelligentTiering THEN "5"
    ELSE "0"

\* a mapStorageClass that knows the default only
aliyunMapStorageClass_DefaultOnly(sc) == "Standard"

\* AliyunAdapter.mapStorageClass
aliyunMapStorageClass(sc) ==
    IF sc = StorageClassStandard THEN "Standard"
    ELSE IF sc = StorageClassInfrequent THEN "IA"
    ELSE IF sc = StorageClassArchive THEN "Archive"
    ELSE IF sc = StorageClassDeepArchive THEN "ColdArchive"
    ELSE "Standard"

\* the concrete value an adapter puts on its requests for a class
ConcreteClass(provider, sc) ==
    IF provider = "aws" THEN awsStorageClass(sc)
    ELSE IF provider = "qiniu" THEN qiniuMapStorageClass(sc)
    ELSE aliyunMapStorageClass(sc)

\* where the adapter puts it: AWS in the request's own StorageClass field,
\* the others in a metadata header
ClassField(provider) ==
    IF provider = "aws" THEN "StorageClass"
    ELSE IF provider = "qiniu" THEN "x-qiniu-storage-class"
    ELSE "x-oss-storage-class"

\* the adapters createStorageAdapter knows, and the strings a configuration
\* may hold as its storage class
Providers == {"aws", "qiniu", "aliyun"}
ClassStrings ==
    {"standard", "STANDARD", "ia", "infrequent", "INFREQUENT_ACCESS", "archive",
     "ARCHIVE", "deep_archive", "DEEP_ARCHIVE", "glacier_ir", "GLACIER_IR",
     "intelligent", "INTELLIGENT_TIERING", "intelligent_tiering", "", "cold"}

\* runBackup has its configuration and has created the adapter
ClassInit ==
    /\ QuietInit
    /\ EndpointIdle
    /\ scProvider \in Providers
    /\ scConfig \in ClassStrings
    /\ scOpts = "none"
    /\ scRequest = NoRequest
    /\ ArchiveIdle
    /\ ConfigIdle

\* runBackup: opts := UploadOptions{StorageClass: ParseStorageClass(...)}
MakeUploadOptions ==
    /\ scOpts = "none"
    /\ scOpts' = ParseStorageClass(scConfig)
    /\ UNCHANGED <<quietVars, endpointVars, archiveVars, configVars,
                   scProvider, scConfig, scRequest>>

\* adapter.InitMultipartUpload(ctx, key, opts), reached through Upload: the
\* class goes on the request if opts.StorageClass.IsValid()
ClassInitMultipartUpload ==
    /\ scOpts # "none"
    /\ scRequest.calls = 0
    /\ scRequest' =
          IF IsValid(scOpts)
          THEN [calls |-> 1, field |-> ClassField(scProvider),
                value |-> ConcreteClass(scProvider, scOpts)]
          ELSE [calls |-> 1, field |-> "", value |-> ""]
    /\ UNCHANGED <<quietVars, endpointVars, archiveVars, configVars,
                   scProvider, scConfig, scOpts>>

\* adapter.SetStorageClass(ctx, key, class) on the finished object: the class
\* goes on a CopyObject request
ClassSetStorageClass ==
    /\ scRequest.calls = 1
    /\ scRequest' = [calls |-> 2, field |-> ClassField(scProvider),
                     value |-> ConcreteClass(scProvider, scOpts)]
    /\ UNCHANGED <<quietVars, endpointVars, archiveVars, configVars,
                   scProvider, scConfig, scOpts>>

ClassNext ==
    \/ MakeUploadOptions
    \/ ClassInitMultipartUpload
    \/ ClassSetStorageClass

SpecClass == ClassInit /\ [][ClassNext]_vars

\* C23: the value each backend places on the create-upload request is the
\* one of the translation table (AWS: STANDARD, STANDARD_IA, GLACIER,
\* DEEP_ARCHIVE, GLACIER_IR, INTELLIGENT_TIERING; Qiniu: 0..5 for the same;
\* Aliyun: Standard, IA, Archive, ColdArchive)
C23_TranslationTable ==
    LET table ==
          [aws |-> [STANDARD |-> "STANDARD", INFREQUENT_ACCESS |-> "STANDARD_IA",
                    ARCHIVE |-> "GLACIER", DEEP_ARCHIVE |-> "DEEP_ARCHIVE",
                    GLACIER_IR |-> "GLACIER_IR",
                    INTELLIGENT_TIERING |-> "INTELLIGENT_TIERING"],
           qiniu |-> [STANDARD |-> "0", INFREQUENT_ACCESS |-> "1", ARCHIVE |-> "2",
                      DEEP_ARCHIVE |-> "3", GLACIER_IR |-> "4",
                      INTELLIGENT_TIERING |-> "5"],
           aliyun |-> [STANDARD |-> "Standard", INFREQUENT_ACCESS |-> "IA",
                       ARCHIVE |-> "Archive", DEEP_ARCHIVE |-> "ColdArchive"]]
    IN (scRequest.calls = 1 /\ scOpts \in SupportedStorageClasses(scProvider))
           => scRequest.value = table[scProvider][scOpts]

\* C24: a backup whose class is not in the backend's supported set is
\* rejected before dispatch: no create-upload request is sent for it
C24_UnsupportedRejected ==
    (scOpts # "none" /\ scOpts \notin SupportedStorageClasses(scProvider))
        => scRequest.calls = 0

\* C25: two distinct classes of a backend's supported set have distinct
\* concrete strings: the value sent for one supported class is the concrete
\* string of no other supported class of that backend
C25_TranslationInjective ==
    (scRequest.calls >= 1 /\ scOpts \in SupportedStorageClasses(scProvider)) =>
        \A other \in SupportedStorageClasses(scProvider) \ {scOpts} :
            scRequest.value # ConcreteClass(scProvider, other)

\* Aliyun was sent the deep-archive class
C25_Witness ==
    /\ scProvider = "aliyun" /\ scOpts = StorageClassDeepArchive
    /\ scRequest.calls = 1 /\ scRequest.value = "ColdArchive"

\* ---- the archiver (package archive) ----
\* A path is the sequence of its segments, the components that
\* strings.Split(filepath.ToSlash(path), "/") yields; a segment is a sequence
\* of characters.  The sink accepts every write.

MaxIncludes == 2

Dot == <<".">>
DotDot == <<".", ".">>
DotDotSpace == <<".", ".", " ">>
segR == <<"r">>
segD == <<"d">>
segF == <<"f">>
segG == <<"g">>
segM == <<"m">>

\* an isPathSafe that accepts every path
isPathSafe_Always(path) == TRUE

\* Archiver.isPathSafe: no component is "..", bare or padded with white space
isPathSafe(path) ==
    \A i \in 1..Len(path) :
        /\ path[i] # DotDot
        /\ TrimSpace(path[i]) # DotDot

\* filepath.Clean on the segments: "." is dropped, ".." takes back the
\* segment before it
RECURSIVE CleanFrom(_, _)
CleanFrom(path, acc) ==
    IF path = <<>> THEN acc
    ELSE LET comp == Head(path) IN
         CleanFrom(Tail(path),
                   IF comp = Dot THEN acc
                   ELSE IF comp = DotDot /\ acc # <<>> /\ acc[Len(acc)] # DotDot
                        THEN SubSeq(acc, 1, Len(acc) - 1)
                        ELSE Append(acc, comp))

Clean(path) == CleanFrom(path, <<>>)

\* filepath.Join(dir, name) and filepath.Base(path)
Join(dir, name) == Clean(Append(dir, name))
Base(path) == path[Len(path)]

\* a compiled exclude pattern: the literal path lit, or lit followed by "/*"
\* (star), which matches every path below lit: glob.Compile is given no
\* separators, so "*" runs across "/"
Match(g, path) ==
    IF g.star
    THEN Len(path) > Len(g.lit) /\ SubSeq(path, 1, Len(g.lit)) = g.lit
    ELSE path = g.lit

\* an isExcluded that matches nothing
isExcluded_Never(path) == FALSE

\* Archiver.isExcluded
isExcluded(path) == \E g \in arExcludes : Match(g, path)

\* the file tree: r is a directory holding the directory d (with the file f)
\* and the node g; m does not exist
FsNodes == {<<segR>>, <<segR, segD>>, <<segR, segD, segF>>, <<segR, segG>>}
FsChoices ==
    {fs \in [FsNodes -> {"dir", "dirnoread", "file", "filenoopen", "symlink",
                         "symlinknoread", "special", "nostat"}] :
        /\ fs[<<segR>>] = "dir"
        /\ fs[<<segR, segD>>] \in {"dir", "dirnoread"}
        /\ fs[<<segR, segD, segF>>] = "file"
        /\ fs[<<segR, segG>>] \in {"file", "filenoopen", "symlink", "symlinknoread",
                                   "special", "nostat"}}

\* os.Lstat(path): "nostat" is its error; "dirnoread", "filenoopen" and
\* "symlinknoread" are a directory, a regular file and a symbolic link that
\* os.ReadDir, os.Open and os.Readlink will fail on
Lstat(path) ==
    IF Clean(path) \in DOMAIN arFs THEN arFs[Clean(path)] ELSE "nostat"

\* os.ReadDir(path): the names in the directory, sorted
ReadDir(path) ==
    IF Clean(path) = <<segR>> THEN <<segD, segG>>
    ELSE IF Clean(path) = <<segR, segD>> THEN <<segF>>
    ELSE <<>>

\* os.Readlink(path): every link of the tree points at the directory r/d
Readlink(path) == <<segR, segD>>

\* info.Size() of a regular file of the tree
FileSize(path) == 1

\* the Typeflag bytes: TypeReg, TypeLink and TypeDir as package archive
\* names them; archive/tar's TypeSymlink, which the package does not name
TypeReg == "0"
TypeLink == "1"
TypeSymlink == "2"
TypeDir == "5"

RootChoices ==
    {<<segR>>, <<segR, segD>>, <<segR, segD, segF>>, <<segR, DotDot, segR>>,
     <<DotDotSpace>>, <<segM>>}
IncludeLists == UNION {[1..n -> RootChoices] : n \in 0..MaxIncludes}
ExcludePatterns ==
    {[lit |-> <<segR, segD>>, star |-> FALSE], [lit |-> <<segR, segD>>, star |-> TRUE]}

TarFooter == [kind |-> "footer", name |-> <<>>, node |-> <<>>, root |-> 0]
GzipTrailer == [kind |-> "trailer", name |-> <<>>, node |-> <<>>, root |-> 0]

\* deferred closes run in the wrong order
deferredClose_GzipFirst(out) == out \o <<GzipTrailer, TarFooter>>

\* Archive's deferred calls, last deferred first: tarWriter.Close() writes the
\* tar footer, then gzWriter.Close() the gzip trailer
deferredClose(out) == out \o <<TarFooter, GzipTrailer>>

\* NewArchiver(includes, excludes) returned an archiver and Archive(ctx, w)
\* is called
ArchiveInit ==
    /\ QuietInit
    /\ EndpointIdle
    /\ ClassIdle
    /\ ConfigIdle
    /\ arFs \in FsChoices
    /\ arIncludes \in IncludeLists
    /\ arExcludes \in SUBSET ExcludePatterns
    /\ arCtxDone = FALSE
    /\ arPc = "start"
    /\ arStack = <<>>
    /\ arOut = <<>>
    /\ arTouched = {}
    /\ arSkips = {}
    /\ arErr = "none"

\* one call archivePath(ctx, tw, path, base) up to its recursive calls: the
\* error it returns, the entries it writes (with the Typeflag, Linkname and
\* Size of the header given to WriteHeader), the paths it reads from disk, the
\* node it skips and the calls archiveDir goes on to make.  archiveFile's
\* second validatePath and isExcluded see the same path and pass.
archivePath(fr) ==
    LET path == fr.path
        info == Lstat(path)
        name == IF fr.base = <<>> THEN path ELSE Join(fr.base, Base(path))
        read == {[path |-> path, root |-> fr.root]}
        Skip(why) == {[path |-> path, root |-> fr.root, isRoot |-> fr.base = <<>>,
                       why |-> why]}
        Entry(kind, typeflag, linkname, size) ==
            <<[kind |-> kind, name |-> name, node |-> path, root |-> fr.root,
               typeflag |-> typeflag, linkname |-> linkname, size |-> size]>>
        entries == ReadDir(path)
        calls == [i \in 1..Len(entries) |->
                     [path |-> Join(path, entries[i]), base |-> name, root |-> fr.root]]
        Ret(e, emit, touch, skip, push) ==
            [err |-> e, emit |-> emit, touch |-> touch, skip |-> skip, push |-> push]
    IN IF ~isPathSafe(path) THEN Ret("unsafe", <<>>, {}, {}, <<>>)
       ELSE IF isExcluded(path) THEN Ret("none", <<>>, {}, Skip("excluded"), <<>>)
       ELSE IF info = "nostat" THEN Ret("none", <<>>, read, Skip("nostat"), <<>>)
       ELSE IF arCtxDone THEN Ret("canceled", <<>>, read, {}, <<>>)
       ELSE IF info = "symlink"
            THEN Ret("none", Entry("symlink", TypeLink, Readlink(path), 0), read, {}, <<>>)
       ELSE IF info = "symlinknoread" THEN Ret("none", <<>>, read, Skip("noreadlink"), <<>>)
       ELSE IF info = "dir" THEN Ret("none", Entry("dir", TypeDir, <<>>, 0), read, {}, calls)
       ELSE IF info = "dirnoread"
            THEN Ret("none", Entry("dir", TypeDir, <<>>, 0), read, Skip("noread"), <<>>)
       ELSE IF info = "file"
            THEN Ret("none", Entry("file", TypeReg, <<>>, FileSize(path)), read, {}, <<>>)
       ELSE IF info = "filenoopen" THEN Ret("none", <<>>, read, Skip("noopen"), <<>>)
       ELSE Ret("none", <<>>, read, Skip("special"), <<>>)

\* Archive: the writers are made and the loop over a.includes begins
ArchiveStart ==
    /\ arPc = "start"
    /\ arPc' = "walk"
    /\ arStack' = [i \in 1..Len(arIncludes) |->
                      [path |-> arIncludes[i], base |-> <<>>, root |-> i]]
    /\ UNCHANGED <<quietVars, endpointVars, classVars, configVars, arFs, arIncludes,
                   arExcludes, arCtxDone, arOut, arTouched, arSkips, arErr>>

\* the next archivePath call of the walk; an error ends every loop above it
ArchivePath ==
    /\ arPc = "walk"
    /\ arStack # <<>>
    /\ LET r == archivePath(Head(arStack)) IN
          /\ arOut' = arOut \o r.emit
          /\ arTouched' = arTouched \cup r.touch
          /\ arSkips' = arSkips \cup r.skip
          /\ arErr' = r.err
          /\ arStack' = IF r.err # "none" THEN <<>> ELSE r.push \o Tail(arStack)
    /\ UNCHANGED <<quietVars, endpointVars, classVars, configVars, arFs, arIncludes,
                   arExcludes, arCtxDone, arPc>>

\* Archive returns: nil after the last include, or the error; the deferred
\* closes run
ArchiveReturn ==
    /\ arPc = "walk"
    /\ arStack = <<>>
    /\ arOut' = deferredClose(arOut)
    /\ arPc' = "done"
    /\ UNCHANGED <<quietVars, endpointVars, classVars, configVars, arFs, arIncludes,
                   arExcludes, arCtxDone, arStack, arTouched, arSkips, arErr>>

\* the caller cancels ctx, or its deadline passes
ArchiveCancel ==
    /\ arPc \in {"start", "walk"}
    /\ ~arCtxDone
    /\ arCtxDone' = TRUE
    /\ UNCHANGED <<quietVars, endpointVars, classVars, configVars, arFs, arIncludes,
                   arExcludes, arPc, arStack, arOut, arTouched, arSkips, arErr>>

ArchiveNext ==
    \/ ArchiveStart
    \/ ArchivePath
    \/ ArchiveReturn
    \/ ArchiveCancel

SpecArchive == ArchiveInit /\ [][ArchiveNext]_vars

\* path p is the node q or lies in its subtree
AtOrUnder(p, q) == Len(p) >= Len(q) /\ SubSeq(p, 1, Len(q)) = q

\* the tar entries among what reached the sink
TarEntries(out) == SelectSeq(out, LAMBDA e : e.kind \notin {"footer", "trailer"})

\* C26: a node the walk found excluded is not emitted and not read from
\* disk, and neither is any node of its subtree
C26_ExcludedSubtreeNeverEmitted ==
    \A s \in arSkips : s.why = "excluded" =>
        /\ \A i \in 1..Len(arOut) : ~AtOrUnder(arOut[i].node, s.path)
        /\ \A t \in arTouched : ~AtOrUnder(t.path, s.path)

\* C26 (amended): within the walk of one include root, a node is emitted or
\* read from disk only if neither the node nor any directory between the
\* root and the node matches an exclude pattern
C26_ExcludedNotReachedFromRoot ==
    LET Reached(node, root) ==
            \A k \in Len(arIncludes[root])..Len(node) :
                \A g \in arExcludes : ~Match(g, SubSeq(node, 1, k))
    IN /\ \A i \in 1..Len(arOut) :
              arOut[i].root # 0 => Reached(arOut[i].node, arOut[i].root)
       /\ \A t \in arTouched : Reached(t.path, t.root)

\* the directory r/d was excluded by its own path, and the walk of r went on
\* to emit r/g
C26_Witness ==
    /\ arPc = "done" /\ arErr = "none"
    /\ \E s \in arSkips : s.why = "excluded" /\ s.path = <<segR, segD>>
    /\ \E i \in 1..Len(arOut) : arOut[i].node = <<segR, segG>>
    /\ \A i \in 1..Len(arOut) : ~AtOrUnder(arOut[i].node, <<segR, segD>>)

\* C27: when an include root could not be stat'ed, Archive returns an error
C27_UnreadableRootFatal ==
    (arPc = "done" /\ \E s \in arSkips : s.isRoot /\ s.why = "nostat")
        => arErr # "none"

C29_NoDotDotEntry ==
    /\ \A i \in 1..Len(arOut) : \A k \in 1..Len(arOut[i].name) :
          arOut[i].name[k] # DotDot
    /\ (arPc = "done" /\ arErr = "none") =>
          \A i \in 1..Len(arIncludes) : \A k \in 1..Len(arIncludes[i]) :
              arIncludes[i][k] # DotDot

\* the second root has a ".." segment: Archive failed on it after the entries
\* of the first root
C29_Witness ==
    /\ arPc = "done" /\ arErr = "unsafe"
    /\ Len(arIncludes) = 2
    /\ \E k \in 1..Len(arIncludes[2]) : arIncludes[2][k] = DotDot
    /\ Len(TarEntries(arOut)) >= 1
    /\ \A i \in 1..Len(arOut) : arOut[i].root # 2

\* ---- the configuration (package config) on its way through runBackup ----

DefaultChunkSize == 5242880
MinChunkSize == 5242880

provAws == <<"a", "w", "s">>
provAwsUpper == <<"A", "W", "S">>
provQiniu == <<"q", "i", "n", "i", "u">>
provAliyun == <<"a", "l", "i", "y", "u", "n">>
provGcp == <<"g", "c", "p">>

\* the providers createStorageAdapter has a case for
ProviderNames == {provAws, provQiniu, provAliyun}

\* setDefaults, for the fields modelled
setDefaults(c) ==
    [c EXCEPT !.provider = IF @ = <<>> THEN provAws ELSE @,
              !.chunkSize = IF @ = 0 THEN DefaultChunkSize ELSE @]

\* runBackup: the command-line flags override the configuration
Overrides(c, flags) ==
    [c EXCEPT !.provider = IF flags.provider # <<>> THEN flags.provider ELSE @,
              !.chunkSize = IF flags.chunkSize > 0 THEN flags.chunkSize ELSE @]

\* Config.GetAccessKey, GetSecretKey, GetPassword: the configuration's value,
\* else the environment's
GetAccessKey(c, env) == IF c.accessKey # "" THEN c.accessKey ELSE env.accessKey
GetSecretKey(c, env) == IF c.secretKey # "" THEN c.secretKey ELSE env.secretKey
GetPassword(c, env) == IF c.password # "" THEN c.password ELSE env.password

\* Config.Validate: the error it returns, "none" for nil
Validate(c, env) ==
    IF c.bucket = "" THEN "storage bucket is required"
    ELSE IF GetAccessKey(c, env) = "" THEN "storage access_key is required"
    ELSE IF GetSecretKey(c, env) = "" THEN "storage secret_key is required"
    ELSE IF c.encEnabled /\ GetPassword(c, env) = "" /\ c.keyFile = ""
         THEN "encryption password or key_file is required"
    ELSE "none"

\* what a configuration file may hold (the zero value where it is silent),
\* and the flags and environment of a run
ConfigFiles ==
    [provider : {<<>>, provAws, provAwsUpper, provQiniu, provAliyun, provGcp},
     bucket : {"", "bucket"},
     accessKey : {"", "ak"},
     secretKey : {"", "sk"},
     encEnabled : BOOLEAN,
     password : {"", "pw"},
     keyFile : {""},
     chunkSize : {-1, 0, 4194304, DefaultChunkSize, 10485760}]
Environments ==
    {[accessKey |-> "", secretKey |-> "", password |-> ""],
     [accessKey |-> "eak", secretKey |-> "esk", password |-> "epw"]}
FlagSets ==
    [provider : {<<>>, provGcp}, chunkSize : {0, 4194304}, env : Environments]

\* runBackup is called
ConfigInit ==
    /\ QuietInit
    /\ EndpointIdle
    /\ ClassIdle
    /\ ArchiveIdle
    /\ cfFile \in ConfigFiles
    /\ cfFlags \in FlagSets
    /\ cfCfg = <<>>
    /\ cfPc = "start"
    /\ cfErr = "none"
    /\ cfAdapter = <<>>
    /\ cfUploads = 0

\* config.LoadConfig: the file's values with the defaults filled in
LoadConfig ==
    /\ cfPc = "start"
    /\ cfCfg' = setDefaults(cfFile)
    /\ cfPc' = "loaded"
    /\ UNCHANGED <<quietVars, endpointVars, classVars, archiveVars, cfFile, cfFlags,
                   cfErr, cfAdapter, cfUploads>>

\* runBackup: the flags are applied, then cfg.Validate()
ValidateConfig ==
    /\ cfPc = "loaded"
    /\ LET c == Overrides(cfCfg, cfFlags)
           e == Validate(c, cfFlags.env)
       IN /\ cfCfg' = c
          /\ cfErr' = e
          /\ cfPc' = IF e = "none" THEN "validated" ELSE "returned"
    /\ UNCHANGED <<quietVars, endpointVars, classVars, archiveVars, cfFile, cfFlags,
                   cfAdapter, cfUploads>>

\* createStorageAdapter: switch strings.ToLower(cfg.Storage.Provider)
CreateStorageAdapter ==
    /\ cfPc = "validated"
    /\ IF ToLower(cfCfg.provider) \in ProviderNames
       THEN /\ cfAdapter' = ToLower(cfCfg.provider)
            /\ cfPc' = "adapter"
            /\ cfErr' = cfErr
       ELSE /\ cfAdapter' = cfAdapter
            /\ cfPc' = "returned"
            /\ cfErr' = "unsupported provider"
    /\ UNCHANGED <<quietVars, endpointVars, classVars, archiveVars, cfFile, cfFlags,
                   cfCfg, cfUploads>>

\* runBackup: NewUploader(adapter, cfg.Backup.ChunkSize, ...) and Upload,
\* which makes the backend calls
ConfigUpload ==
    /\ cfPc = "adapter"
    /\ cfUploads' = cfUploads + 1
    /\ cfPc' = "uploading"
    /\ UNCHANGED <<quietVars, endpointVars, classVars, archiveVars, cfFile, cfFlags,
                   cfCfg, cfErr, cfAdapter>>

ConfigNext ==
    \/ LoadConfig
    \/ ValidateConfig
    \/ CreateStorageAdapter
    \/ ConfigUpload

SpecConfig == ConfigInit /\ [][ConfigNext]_vars

\* C30: a configuration that passed validation, and so any for which an
\* adapter was created or Upload was called, has a chunk size of at least
\* 5 MiB and a known provider
C30_ValidationRejectsChunkSizeAndProvider ==
    (cfPc \in {"validated", "adapter", "uploading"} \/ cfAdapter # <<>> \/ cfUploads > 0)
        => /\ cfCfg.chunkSize >= MinChunkSize
           /\ ToLower(cfCfg.provider) \in ProviderNames

\* ---- further claims about Upload ----

\* C31: on an empty source (the first read returns end-of-stream) Upload
\* makes no UploadPart call; with a backend that answers and a context that
\* is not cancelled it returns nil after one InitMultipartUpload, one
\* CompleteMultipartUpload of the empty part list and no AbortMultipartUpload
C31_EmptySource ==
    (srcLen = 0 /\ ~readErrSeen) =>
        /\ uploadCalls = {}
        /\ (Returned /\ InitSucceeded /\ ~cancelled /\ err # "complete") =>
              /\ err = "nil"
              /\ initCalls = 1
              /\ completeCalls = 1 /\ completeArg = <<>>
              /\ abortCalls = 0

\* Upload returned nil on an empty source
C31_Witness ==
    /\ srcLen = 0 /\ ReturnedSuccess /\ ~cancelled
    /\ rpc = "done" /\ readPos = 0
    /\ initCalls = 1 /\ uploadCalls = {} /\ completeCalls = 1 /\ abortCalls = 0

\* C33: once Upload has returned (and so once the deferred
\* AbortMultipartUpload was issued), no UploadPart call begins
C33_NoUploadPartAfterReturn ==
    [][Returned => uploadCalls' = uploadCalls]_vars

\* ---- Upload under a context that is never cancelled, fairly scheduled ----
\* Every goroutine that can step does step (the Go scheduler starves none),
\* every read of the source and every backend call returns, and the
\* coordinator's select, when a case is ready, takes one.

FairCoordStep ==
    \/ CoordInitOK
    \/ CoordInitFail
    \/ CoordRecvResult
    \/ CoordResultClosed
    \/ CoordRecvError
    \/ CoordReadDone
    \/ CoordComplete
    \/ CoordDeferred

FairNext ==
    \/ FairCoordStep
    \/ ReaderStep
    \/ \E w \in Workers : WorkerStep(w)
    \/ CloserClose

Fairness ==
    /\ WF_vars(FairCoordStep)
    /\ WF_vars(ReaderStep)
    /\ \A w \in 1..MaxConcurrency : WF_vars(w \in Workers /\ WorkerStep(w))
    /\ WF_vars(CloserClose)

SpecFair == Init /\ [][FairNext]_vars /\ Fairness

\* C34: Upload eventually returns
C34_UploadReturns == <>Returned

\* Upload returned after parts failed in both workers and chunks were left
\* in the queue
C34_Witness ==
    /\ Returned /\ ~cancelled
    /\ concurrency = 2
    /\ partErrSeen
    /\ chunkChan # <<>>

\* C35: after Upload returned because of an UploadPart failure or a read
\* error, with ctx not cancelled, no task it started is blocked for ever:
\* either all of them have ended or one of them can step
C35_TasksEndAfterFailure ==
    (Returned /\ err \in {"part", "read"} /\ ~cancelled)
        => (AllTasksDone \/ ENABLED TaskStep)


\* the reader has left readChunks (its deferred close has run)
ReaderExited == rpc \in {"closeReadDone", "done"}

\* C39: chunkChan is closed exactly when the reader has left readChunks and
\* resultChan only when every worker has ended; no task is at a send on a
\* closed channel; and the coordinator is at `complete` only when the reader
\* has left and every worker has ended
C39_ChannelDiscipline ==
    InitSucceeded =>
        /\ chunkClosed <=> ReaderExited
        /\ resultClosed => \A w \in Workers : wpc[w] = "done"
        /\ rpc = "send" => ~chunkClosed
        /\ \A w \in Workers : wpc[w] = "sendRes" => ~resultClosed
        /\ cpc = "complete" =>
              /\ ReaderExited
              /\ \A w \in Workers : wpc[w] = "done"


\* ---- further claims about runBackup (SpecDriver) ----

\* C37: runBackup returns nil only if the producer has emitted the whole
\* archive and closed the pipe without an error, every chunk of it was
\* uploaded with no UploadPart failure, and CompleteMultipartUpload returned
\* nil from an Upload that returned nil
C37_SuccessOnlyIfAllSucceeded ==
    mpc = "exitOK" =>
        /\ ppc = "closed"
        /\ readPos = srcLen
        /\ ~partErrSeen
        /\ partsOK = 1..ChunksProduced
        /\ completeOK /\ err = "nil"


\* C38: a symbolic link whose target can be read is emitted once, as a
\* symbolic-link entry (Typeflag TypeSymlink) that carries the link's target
\* and size zero, and it is not followed: no entry is emitted below its name
C38_SymlinkEntry ==
    \A i \in 1..Len(arOut) :
        (arOut[i].kind \notin {"footer", "trailer"} /\ Lstat(arOut[i].node) = "symlink") =>
            /\ arOut[i].typeflag = TypeSymlink
            /\ arOut[i].linkname = Readlink(arOut[i].node)
            /\ arOut[i].size = 0
            /\ \A j \in 1..Len(arOut) :
                  (arOut[j].kind \notin {"footer", "trailer"}
                     /\ Len(arOut[j].name) > Len(arOut[i].name)) =>
                      ~AtOrUnder(arOut[j].name, arOut[i].name)


\* ---- the command's exit code (package cli): Execute ----

\* bound: how many fmt.Errorf("...: %w", err) wrappers an error carries
MaxWrapDepth == 2

\* the nil error
NilError == [wraps |-> <<>>, cause |-> "nil"]

\* context.Canceled and context.DeadlineExceeded, and the other errors at the
\* root of a chain
Canceled == "context canceled"
DeadlineExceeded == "context deadline exceeded"
ErrorCauses ==
    {Canceled, DeadlineExceeded, "unexpected EOF", "io: read/write on closed pipe",
     "permission denied", "connection reset by peer"}

\* the messages runBackup and the uploader wrap around an error
Wraps ==
    {"failed to upload", "failed to archive", "failed to load config",
     "failed to upload part", "failed to read data"}

\* the errors a command's RunE may return: nil, or a cause under 0 to
\* MaxWrapDepth wrappers, outermost first
CliErrors ==
    {NilError} \cup
    {[wraps |-> w, cause |-> c] :
        w \in UNION {[1..n -> Wraps] : n \in 0..MaxWrapDepth}, c \in ErrorCauses}

\* err.Error() of a chain built with "%s: %w"
ErrorString(e) == e.wraps \o <<e.cause>>

\* errors.Is(e, target): it unwraps down to the cause
ErrorsIs(e, target) == e.cause = target

\* the error stems from a cancellation or from the deadline of ctx
IsCancellation(e) == ErrorsIs(e, Canceled) \/ ErrorsIs(e, DeadlineExceeded)

\* the exit code Execute gives the process for err: os.Exit(1) for every
\* error, and 0 when it returns to main
ExitCode(e) == IF e # NilError THEN 1 ELSE 0

\* the command line is parsed and the command's RunE is about to run
CliInit ==
    /\ UploaderInit
    /\ concurrency = 1 /\ chunkSize = 1 /\ srcLen = 0
    /\ DriverIdle
    /\ CipherIdle
    /\ EndpointIdle /\ ClassIdle /\ ArchiveIdle /\ ConfigIdle
    /\ ResumeIdle /\ StateIdle
    /\ clErr \in CliErrors
    /\ clPc = "run"
    /\ clRet = NilError /\ clStderr = <<>> /\ clExit = 0

oldVars == <<concurrency, chunkSize, srcLen, driverVars, cipherVars, cancelled,
             cancelInFlight, pool, chanVars, readerVars, workerVars, coordVars,
             endpointVars, classVars, archiveVars, configVars>>

\* rootCmd.Execute() runs the command and returns the error of its RunE
CliCommandReturn ==
    /\ clPc = "run"
    /\ clRet' = clErr
    /\ clPc' = "check"
    /\ UNCHANGED <<oldVars, savedParts, stateVars, clErr, clStderr, clExit>>

\* Execute: on an error print it to os.Stderr and os.Exit(1)
CliExecuteExit ==
    /\ clPc = "check"
    /\ clRet # NilError
    /\ clStderr' = <<"Error: ">> \o ErrorString(clRet)
    /\ clExit' = ExitCode(clRet)
    /\ clPc' = "exited"
    /\ UNCHANGED <<oldVars, savedParts, stateVars, clErr, clRet>>

\* Execute: no error, return to main, which returns: the process exits with 0
CliExecuteReturn ==
    /\ clPc = "check"
    /\ clRet = NilError
    /\ clExit' = ExitCode(clRet)
    /\ clPc' = "returned"
    /\ UNCHANGED <<oldVars, savedParts, stateVars, clErr, clRet, clStderr>>

CliNext ==
    \/ CliCommandReturn
    \/ CliExecuteExit
    \/ CliExecuteReturn

SpecCli == CliInit /\ [][CliNext]_vars

\* C32: a run that ends with a cancellation or deadline error exits with a
\* code that is not 0 and is not the code of any run that ends with another
\* error
C32_CancelExitDistinct ==
    (clPc = "exited" /\ IsCancellation(clRet)) =>
        /\ clExit # 0
        /\ \A e \in CliErrors :
              (e # NilError /\ ~IsCancellation(e)) => clExit # ExitCode(e)


\* ---- ResumableUploader.Resume ----
\* Resume runs the reader, the workers, the closing task and the select loop
\* of Upload on an upload id it is given: it calls no InitMultipartUpload and
\* defers no abort.  Its worker skips the parts of savedState.Completed.
\* u.stateMgr is nil (SetStateManager was not called).

\* bounds: the bytes of the source that is resumed, and the highest part
\* number the saved state records
MaxResumeSrcLen == 3
MaxSavedPart == 2

\* savedState.UploadedBytes: the saved parts were whole chunks
SavedBytes == chunkSize * Cardinality(savedParts)

\* the orders in which `for _, p := range completedParts` may visit the map
SavedPartOrders ==
    {s \in [1..Cardinality(savedParts) -> savedParts] :
        \A i, j \in 1..Cardinality(savedParts) : i # j => s[i] # s[j]}

\* NewResumableUploader(adapter, chunkSize, concurrency, savedState) returned
\* and Resume is called on a plain finite reader
ResumeInit ==
    /\ UploaderInit
    /\ srcLen <= MaxResumeSrcLen
    /\ DriverIdle
    /\ CipherIdle
    /\ EndpointIdle /\ ClassIdle /\ ArchiveIdle /\ ConfigIdle
    /\ CliIdle /\ StateIdle
    /\ savedParts \in SUBSET (1..MaxSavedPart)

\* Resume up to its select loop: u.reporter.Init(0), u.reporter.Add of the
\* saved bytes, the channels, the workers and the reader are started, and
\* parts receives the saved parts in the map's order
ResumeStart ==
    /\ cpc = "start"
    /\ reporterInit' = reporterInit + 1
    /\ reporterAdded' = reporterAdded + SavedBytes
    /\ \E order \in SavedPartOrders :
          parts' = [i \in 1..Len(order) |->
                       [partNumber |-> order[i], etag |-> ETagOf(order[i])]]
    /\ wpc' = [w \in Workers |-> "recv"]
    /\ rpc' = "check"
    /\ cpc' = "loop"
    /\ UNCHANGED <<inputVars, cancelled, cancelInFlight, pool, chanVars, rbuf, rchunk,
                   partNumber, readPos, readErrSeen, wchunk, uploadCalls, partsOK,
                   partErrSeen, err, abortDeferred, initCalls, completeCalls,
                   completeArg, completeOK, abortCalls, reporterComplete, reporterClose>>

\* the worker's select on ctx.Done() and its lookup in completedParts:
\* return, skip the chunk, or call adapter.UploadPart
ResumeWorkerCheck(w) ==
    /\ wpc[w] = "check"
    /\ IF cancelled
       THEN /\ wpc' = [wpc EXCEPT ![w] = "done"]
            /\ wchunk' = [wchunk EXCEPT ![w] = NoChunk]
            /\ UNCHANGED uploadCalls
       ELSE IF wchunk[w].partNumber \in savedParts
       THEN /\ wpc' = [wpc EXCEPT ![w] = "sendSkip"]
            /\ UNCHANGED <<wchunk, uploadCalls>>
       ELSE /\ wpc' = [wpc EXCEPT ![w] = "uploading"]
            /\ uploadCalls' = uploadCalls \cup
                   {[partNumber |-> wchunk[w].partNumber, data |-> wchunk[w].data]}
            /\ UNCHANGED wchunk
    /\ UNCHANGED <<inputVars, cancelled, cancelInFlight, pool, chanVars, readerVars,
                   partsOK, partErrSeen, reporterAdded, coordVars>>

\* a completed part: resultChan <- &partResult{completed...};
\* putBuffer(chunk.data); continue
ResumeWorkerSendSkip(w) ==
    /\ wpc[w] = "sendSkip"
    /\ Len(resultChan) < concurrency
    /\ resultChan' = Append(resultChan, [partNumber |-> wchunk[w].partNumber,
                                         etag |-> ETagOf(wchunk[w].partNumber)])
    /\ pool' = putBuffer(pool, Len(wchunk[w].data), wchunk[w].cap)
    /\ wchunk' = [wchunk EXCEPT ![w] = NoChunk]
    /\ wpc' = [wpc EXCEPT ![w] = "recv"]
    /\ UNCHANGED <<inputVars, cancelled, cancelInFlight, chunkChan, chunkClosed,
                   resultClosed, errorChan, readDone, readerVars, uploadCalls, partsOK,
                   partErrSeen, reporterAdded, coordVars>>

ResumeNext ==
    \/ Cancel
    \/ ResumeStart
    \/ CoordCtxDone
    \/ CoordRecvResult
    \/ CoordResultClosed
    \/ CoordRecvError
    \/ CoordReadDone
    \/ CoordComplete
    \/ CoordDeferred
    \/ ReaderLoopTop
    \/ ReaderRead
    \/ ReaderSendErr
    \/ ReaderSend
    \/ ReaderCloseReadDone
    \/ \E w \in Workers : WorkerRecv(w)
    \/ \E w \in Workers : ResumeWorkerCheck(w)
    \/ \E w \in Workers : ResumeWorkerSendSkip(w)
    \/ \E w \in Workers : WorkerUploadPartReturn(w)
    \/ \E w \in Workers : WorkerSendResult(w)
    \/ \E w \in Workers : WorkerSendError(w)
    \/ CloserClose

SpecResume == ResumeInit /\ [][ResumeNext]_vars

\* C36: Resume calls UploadPart for no part the saved state records as
\* completed, and the part list it gives to CompleteMultipartUpload is
\* strictly increasing in part number
C36_ResumeNoDuplicateParts ==
    /\ \A c \in uploadCalls : c.partNumber \notin savedParts
    /\ completeCalls > 0 =>
          \A i \in 1..(Len(completeArg) - 1) :
              completeArg[i].partNumber < completeArg[i + 1].partNumber


\* ---- StateManager (package state): AddCompletedPart and saveAsync ----
\* sm.state was set by an earlier Save of a state with no completed part.
\* Part c is added by call c; each call starts one saveAsync task.

\* bound: the parts added to one StateManager
MaxStateParts == 3

\* json.MarshalIndent of a state whose Completed is the sequence s; more parts
\* give a longer file
Snapshot(s) ==
    [parts |-> {s[i] : i \in 1..Len(s)}, len |-> 1 + Len(s), torn |-> FALSE]

\* what a marshal may read when it runs unsynchronised beside an append of
\* part c to s: the slice before, the slice after, or a slice whose new
\* element is not written yet
RacingSnapshots(s, c) ==
    {Snapshot(s), Snapshot(Append(s, c)),
     [parts |-> {s[i] : i \in 1..Len(s)}, len |-> 2 + Len(s), torn |-> TRUE]}

NoSaver == [pc |-> "none", snap |-> Snapshot(<<>>)]

StateInit ==
    /\ UploaderInit
    /\ concurrency = 1 /\ chunkSize = 1 /\ srcLen = 0
    /\ DriverIdle
    /\ CipherIdle
    /\ EndpointIdle /\ ClassIdle /\ ArchiveIdle /\ ConfigIdle
    /\ CliIdle /\ ResumeIdle
    /\ smN \in 1..MaxStateParts
    /\ smCompleted = <<>>
    /\ smLock = 0
    /\ smCalls = [c \in 1..smN |-> "call"]
    /\ smSavers = [c \in 1..smN |-> NoSaver]
    /\ smFile = Snapshot(<<>>)
    /\ smRaced = FALSE

\* AddCompletedPart: sm.mu.Lock() returns; the call goes on to change
\* sm.state
AddCompletedPartLock(c) ==
    /\ smCalls[c] = "call"
    /\ smLock = 0
    /\ smLock' = c
    /\ smCalls' = [smCalls EXCEPT ![c] = "locked"]
    /\ UNCHANGED <<oldVars, cliVars, savedParts, smN, smCompleted, smSavers, smFile,
                   smRaced>>

\* AddCompletedPart: the part replaces the entry with its number or is
\* appended, `go sm.saveAsync(sm.state)`, and the deferred Unlock
AddCompletedPartFinish(c) ==
    /\ smCalls[c] = "locked"
    /\ smCompleted' = IF \E i \in 1..Len(smCompleted) : smCompleted[i] = c
                      THEN smCompleted
                      ELSE Append(smCompleted, c)
    /\ smSavers' = [smSavers EXCEPT ![c].pc = "spawned"]
    /\ smLock' = 0
    /\ smCalls' = [smCalls EXCEPT ![c] = "done"]
    /\ UNCHANGED <<oldVars, cliVars, savedParts, smN, smFile, smRaced>>

\* saveAsync: json.MarshalIndent(state), with no lock held
SaveAsyncMarshal(c) ==
    /\ smSavers[c].pc = "spawned"
    /\ IF smLock # 0
       THEN /\ \E snap \in RacingSnapshots(smCompleted, smLock) :
                  smSavers' = [smSavers EXCEPT ![c] = [pc |-> "marshalled", snap |-> snap]]
            /\ smRaced' = TRUE
       ELSE /\ smSavers' = [smSavers EXCEPT
                               ![c] = [pc |-> "marshalled", snap |-> Snapshot(smCompleted)]]
            /\ UNCHANGED smRaced
    /\ UNCHANGED <<oldVars, cliVars, savedParts, smN, smCompleted, smLock, smCalls, smFile>>

\* saveAsync: os.WriteFile opens the state file and truncates it
SaveAsyncOpen(c) ==
    /\ smSavers[c].pc = "marshalled"
    /\ smFile' = [parts |-> {}, len |-> 0, torn |-> TRUE]
    /\ smSavers' = [smSavers EXCEPT ![c].pc = "opened"]
    /\ UNCHANGED <<oldVars, cliVars, savedParts, smN, smCompleted, smLock, smCalls, smRaced>>

\* saveAsync: os.WriteFile writes data at offset 0 and closes; bytes another
\* writer put beyond len(data) stay in the file
SaveAsyncWrite(c) ==
    /\ smSavers[c].pc = "opened"
    /\ smFile' = IF smFile.len > smSavers[c].snap.len
                 THEN [parts |-> smSavers[c].snap.parts, len |-> smFile.len, torn |-> TRUE]
                 ELSE smSavers[c].snap
    /\ smSavers' = [smSavers EXCEPT ![c].pc = "done"]
    /\ UNCHANGED <<oldVars, cliVars, savedParts, smN, smCompleted, smLock, smCalls, smRaced>>

StateNext ==
    \/ \E c \in 1..smN : AddCompletedPartLock(c)
    \/ \E c \in 1..smN : AddCompletedPartFinish(c)
    \/ \E c \in 1..smN : SaveAsyncMarshal(c)
    \/ \E c \in 1..smN : SaveAsyncOpen(c)
    \/ \E c \in 1..smN : SaveAsyncWrite(c)

SpecState == StateInit /\ [][StateNext]_vars

\* every AddCompletedPart call has returned and every saveAsync has ended
SavesFinished ==
    /\ smN > 0
    /\ \A c \in 1..smN : smCalls[c] = "done" /\ smSavers[c].pc = "done"

\* C40: no saveAsync serialises the state while a call is changing it, and
\* once every call and every save has finished the state file is a whole
\* document that lists every part that was added
C40_StateFileComplete ==
    /\ ~smRaced
    /\ SavesFinished => (~smFile.torn /\ smFile.parts = 1..smN)

====
